---- MODULE Spec2Model ----
(***************************************************************************)
(* window_mod: the cross-process injection protocol that sets a window's   *)
(* display affinity from inside the process that owns the window.          *)
(*                                                                         *)
(*   controller threads  : the dialog (UI) thread and the injector worker  *)
(*                         thread of window_mod.exe (src/src/main.cpp),    *)
(*                         both of which call InjectWDASetAffinity         *)
(*   injector            : src/src/injector.cpp                            *)
(*   launcher            : src/inject_launcher/launcher_main.cpp           *)
(*   agent               : src/inject_dll/dllmain.cpp                      *)
(*                                                                         *)
(* The environment (the operating system and the target processes) is part *)
(* of the state: windows, their display affinity, the modules loaded in    *)
(* each target, the named shared-memory section, remote threads.           *)
(***************************************************************************)
EXTENDS Integers, Sequences, FiniteSets, TLC

(***************************************************************************)
(* Bounds of the model.                                                    *)
(***************************************************************************)
\* remote threads that exist at the same time (running or abandoned)
MaxRemote == 1
\* launcher processes that exist at the same time
MaxLaunchers == 1
\* LoadLibraryW reference count of one module in one process
MaxRef == 2
\* events waiting in the injector channel
MaxQueue == 1
\* top-level windows on the desktop
MaxWindows == 2
\* processes that own them
MaxProcs == 1
\* the Update requests and posted messages the dialog lets pile up
MaxInFlight == 2

(***************************************************************************)
(* Program constants.                                                      *)
(***************************************************************************)
WDA_NONE == 0
WDA_EXCLUDEFROMCAPTURE == 17
ERROR_FILE_NOT_FOUND == 2
ERROR_ACCESS_DENIED == 5
ERROR_INVALID_WINDOW_HANDLE == 1400
\* the call has not set the thread's last-error value: GetLastError returns
\* what an earlier call left
NOT_SET == 0
\* GetExitCodeThread / GetExitCodeProcess of a thread or process that has
\* not ended
STILL_ACTIVE == 259
\* the value LoadLibraryW returns for a mapped module (any non-zero value)
HMODULE_LOADED == 4096

Modes == {WDA_NONE, WDA_EXCLUDEFROMCAPTURE}

Threads == {"ui", "worker"}
Windows == 1..MaxWindows
Procs == 1..MaxProcs
\* the handle values a caller can pass: NULL or a window that exists or
\* has existed
NULL == 0
Hwnds == {NULL} \cup Windows

\* the file names of the agent module: the one of the controller's own
\* bit-width, the one of the opposite bit-width, the legacy name
ModNames == {"same", "opp", "legacy"}

RIds == 1..MaxRemote
LIds == 1..MaxLaunchers

VARIABLES
    env,        \* what does not change during a run: bit-widths, files,
                \* which process owns which window
    alive,      \* alive[w]: IsWindow(w)
    affinity,   \* affinity[w]: the window's display affinity
    mods,       \* mods[p][m]: reference count of module m in process p
    seg,        \* the named section: open handles and its 32-bit words
    pc,         \* pc[t]: where controller thread t is
    loc,        \* loc[t]: the locals of the injector call t is in
    rthreads,   \* rthreads[id]: a remote thread inside a target process
    launchers,  \* launchers[id]: a launcher process
    chan,       \* g_injectorChannel: the queue of injector events
    wk,         \* the worker's locals in InjectorWorkerProc
    watch,      \* g_watchedExeNames (as the set of watched processes) and
                \* g_watchedPids
    dsp,        \* the dialog side of the dispatch: g_hDlg, g_pendingWindows,
                \* g_windows, the messages posted to the dialog, the
                \* processes that have exited, the last request served
    hist,       \* the last call that returned (history)
    faulted     \* whether a step of the environment has failed (history)

vars == <<env, alive, affinity, mods, seg, pc, loc, rthreads,
          launchers, chan, wk, watch, dsp, hist, faulted>>

Other(bits) == IF bits = 64 THEN 32 ELSE 64

\* the bit-width of a process
ProcBits(p) == IF p \in env.mism THEN Other(env.bits) ELSE env.bits

(***************************************************************************)
(* The layout of WdaSharedData {HWND hwnd; DWORD affinity;} in 32-bit      *)
(* words, as compiled for a bit-width: a HWND is one word in a 32-bit      *)
(* build and two in a 64-bit build (followed by the DWORD and one word of  *)
(* padding).                                                               *)
(***************************************************************************)
HwndWords(bits) == bits \div 32

StructWords(bits) == IF bits = 64 THEN 4 ELSE 2

ZeroWords(n) == [k \in 1..n |-> 0]

\* pData->hwnd = hwnd, as the build of that bit-width stores it (the upper
\* half of a 64-bit HWND is zero)
WriteHwnd(bits, words, h) ==
    [k \in 1..Len(words) |->
        IF k = 1 THEN h
        ELSE IF k <= HwndWords(bits) THEN 0
        ELSE words[k]]

\* a build that does not store the affinity
WriteAffinity_Skipped(bits, words, a) == words

\* pData->affinity = affinity
WriteAffinity(bits, words, a) ==
    [k \in 1..Len(words) |-> IF k = HwndWords(bits) + 1 THEN a ELSE words[k]]

\* a view of n words on the section (fresh pages read as zero)
ViewWords(words, n) ==
    [k \in 1..n |-> IF k <= Len(words) THEN words[k] ELSE 0]

\* pData->hwnd as the build of that bit-width reads it: the low word and
\* the upper word of the handle
ReadHwnd(bits, words) ==
    [lo |-> words[1], hi |-> IF bits = 64 THEN words[2] ELSE 0]

\* pData->affinity as the build of that bit-width reads it
ReadAffinity(bits, words) == words[HwndWords(bits) + 1]

NoHwnd == [lo |-> NULL, hi |-> 0]

(***************************************************************************)
(* Helpers of the injector.                                                *)
(***************************************************************************)
\* a file check that finds every file
FileExists_Always(f) == TRUE

FileExists(f) == f \in env.files

\* IsWow64Process: a 32-bit process on the 64-bit system
IsWow64(bits) == bits = 32

\* an architecture check that never reports a mismatch
IsArchMismatch_Never(p) == FALSE

IsArchMismatch(p) ==
    IF env.bits = 64
    THEN IsWow64(ProcBits(p))
    ELSE IsWow64(env.bits) /\ ~IsWow64(ProcBits(p))

\* a module scan that never finds the agent
FindRemoteDll_Blind(callerBits, p, m) == FALSE

\* an enumeration that lists the modules of either bit-width
FindRemoteDll_AnyWidth(callerBits, p, m) == mods[p][m] > 0

\* EnumProcessModules lists the target's modules of the caller's own
\* bit-width only
FindRemoteDll(callerBits, p, m) == callerBits = ProcBits(p) /\ mods[p][m] > 0

\* the names the stale-copy eviction of InjectWDASetAffinity looks for
EvictNames == <<"same", "legacy">>

\* the names UnloadInjectedDll looks for, in its order: the x64 name, the
\* x86 name, the legacy name
UnloadNames ==
    IF env.bits = 64
    THEN <<"same", "opp", "legacy">>
    ELSE <<"opp", "same", "legacy">>

(***************************************************************************)
(* Records.                                                                *)
(***************************************************************************)
NoThread ==
    [st |-> "none", kind |-> "none", pid |-> 0, mod |-> "none",
     buf |-> "none", owned |-> FALSE, cbits |-> 0, hwnd |-> NoHwnd,
     aff |-> 0, exit |-> 0]

NoLauncher ==
    [st |-> "none", bits |-> 0, pid |-> 0, mod |-> "none",
     unloadArg |-> FALSE, unloadOnly |-> FALSE, hProcess |-> "none",
     exitCode |-> 0, rt |-> 0, owned |-> FALSE, exit |-> 0]

InitLoc ==
    [op |-> "none", hwnd |-> NULL, affinity |-> WDA_NONE,
     autoUnload |-> FALSE, sameDllPath |-> "none", hMap |-> "none",
     hProcess |-> "none", pid |-> 0, archMismatch |-> FALSE, i |-> 0,
     success |-> FALSE, exitCode |-> 0, queried |-> FALSE,
     actual |-> 0, rt |-> 0, lid |-> 0,
     direct |-> FALSE, launched |-> FALSE,
     lastErr |-> NOT_SET,
     ret |-> FALSE]

\* a window list: the windows in it, and where it comes from ("none": never
\* assigned, "enum": EnumerateWindows, "moved": left behind by std::move)
NoList == [list |-> {}, src |-> "none"]

\* WM_INITDIALOG, main.cpp:1004-1006: g_hDlg is the dialog. stale says that
\* the worker has not synchronised with the dialog thread since g_hDlg was
\* cleared, so that its unsynchronised read may still give the old value
InitDsp ==
    [hDlg |-> TRUE, stale |-> FALSE, pending |-> NoList, windows |-> NoList,
     msgs |-> <<>>, exited |-> {}]

NoCall == [op |-> "none", hwnd |-> NULL, affinity |-> WDA_NONE,
           autoUnload |-> FALSE, ret |-> FALSE, first |-> FALSE]

FreeRIds == {id \in RIds : rthreads[id].st = "none"}
FreeLIds == {id \in LIds : launchers[id].st = "none"}

\* the slot a new remote thread / launcher process takes
NewRId == CHOOSE id \in FreeRIds : \A o \in FreeRIds : id <= o
NewLId == CHOOSE id \in FreeLIds : \A o \in FreeLIds : id <= o

\* a remote thread that ends: its creator reads the exit code if it still
\* holds the thread handle
Ended(r, code) ==
    IF r.owned THEN [r EXCEPT !.st = "done", !.exit = code] ELSE NoThread

\* closing one handle of the named section: the section goes with its last
\* handle
SegClose(s) ==
    IF s.handles = 1
    THEN [handles |-> 0, words |-> <<>>]
    ELSE [s EXCEPT !.handles = @ - 1]

(***************************************************************************)
(* Remote threads, running inside a target process.                        *)
(***************************************************************************)
ctl == <<pc, loc>>
disp == <<chan, wk, watch, dsp>>

\* a validation that leaves out IsWindow
AgentHwndLive_NonNull(h) == h.hi = 0 /\ h.lo \in Windows

\* the handle the agent read, as IsWindow sees it in the target
AgentHwndLive(h) == h.hi = 0 /\ h.lo \in Windows /\ alive[h.lo]

\* an agent whose DllMain returns FALSE: LoadLibraryW returns NULL
AgentLoadResult_Refused == NULL

\* DllMain returns TRUE on every path (dllmain.cpp:35, 43, 50, 61, 74):
\* LoadLibraryW returns the handle of the module
AgentLoadResult == HMODULE_LOADED

\* LoadLibraryW(path) as the entry point of a remote thread. A module that
\* is already mapped only gains a reference; a module that is mapped now
\* runs DllMain(DLL_PROCESS_ATTACH), which opens and maps the section and
\* reads pData->hwnd.
LoadLibraryW(id) ==
    LET r == rthreads[id]
        p == r.pid
        m == r.mod
        bits == ProcBits(p)
    IN  /\ r.st = "new"
        /\ r.kind = "load"
        /\ r.buf = "valid"
        /\ UNCHANGED <<env, alive, affinity, ctl, launchers, disp, hist>>
        /\ \/ /\ mods[p][m] > 0
              /\ mods' = [mods EXCEPT ![p][m] = IF @ < MaxRef THEN @ + 1 ELSE @]
              /\ rthreads' = [rthreads EXCEPT ![id] = Ended(r, HMODULE_LOADED)]
              /\ UNCHANGED <<seg, faulted>>
           \/ \* the module cannot be loaded (blocked, missing dependency)
              /\ mods[p][m] = 0
              /\ rthreads' = [rthreads EXCEPT ![id] = Ended(r, 0)]
              /\ faulted' = TRUE
              /\ UNCHANGED <<seg, mods>>
           \/ \* OpenFileMappingW fails: the section does not exist
              /\ mods[p][m] = 0
              /\ seg.handles = 0
              /\ mods' = [mods EXCEPT ![p][m] = 1]
              /\ rthreads' = [rthreads EXCEPT ![id] = Ended(r, AgentLoadResult)]
              /\ UNCHANGED <<seg, faulted>>
           \/ \* MapViewOfFile fails
              /\ mods[p][m] = 0
              /\ seg.handles > 0
              /\ mods' = [mods EXCEPT ![p][m] = 1]
              /\ rthreads' = [rthreads EXCEPT ![id] = Ended(r, AgentLoadResult)]
              /\ faulted' = TRUE
              /\ UNCHANGED seg
           \/ /\ mods[p][m] = 0
              /\ seg.handles > 0
              /\ mods' = [mods EXCEPT ![p][m] = 1]
              /\ seg' = [seg EXCEPT !.handles = @ + 1]
              /\ rthreads' = [rthreads EXCEPT ![id] =
                    [r EXCEPT !.st = "attached",
                              !.hwnd = ReadHwnd(bits,
                                  ViewWords(seg.words, StructWords(bits)))]]
              /\ UNCHANGED faulted

\* LoadLibraryW(path) when the path buffer was released before the thread
\* ran: the read of the released buffer fails the load or ends the target
\* process (its windows and modules go with it)
LoadLibraryDangling(id) ==
    LET r == rthreads[id]
        p == r.pid
    IN  /\ r.st = "new"
        /\ r.kind = "load"
        /\ r.buf = "freed"
        /\ faulted' = TRUE
        /\ UNCHANGED <<env, affinity, seg, ctl, launchers, chan, wk, watch,
                       hist>>
        /\ rthreads' = [rthreads EXCEPT ![id] = Ended(r, 0)]
        /\ \/ UNCHANGED <<alive, mods, dsp>>
           \/ /\ alive' = [w \in Windows |->
                              IF env.owner[w] = p THEN FALSE ELSE alive[w]]
              /\ mods' = [mods EXCEPT ![p] = [m \in ModNames |-> 0]]
              /\ dsp' = [dsp EXCEPT !.exited = @ \cup {p}]

\* an agent that clears the payload after reading it
DllMainRead_Clears(id) ==
    LET r == rthreads[id]
        bits == ProcBits(r.pid)
    IN  /\ r.st = "attached"
        /\ rthreads' = [rthreads EXCEPT ![id] =
              [r EXCEPT !.st = "read",
                        !.aff = ReadAffinity(bits,
                            ViewWords(seg.words, StructWords(bits)))]]
        /\ seg' = [handles |-> seg.handles - 1,
                   words |-> ZeroWords(Len(seg.words))]
        /\ UNCHANGED <<env, alive, affinity, mods, ctl, launchers, disp,
                       hist, faulted>>

\* DllMain, continued: reads pData->affinity, unmaps the view and closes
\* its handle of the section
DllMainRead(id) ==
    LET r == rthreads[id]
        bits == ProcBits(r.pid)
    IN  /\ r.st = "attached"
        /\ rthreads' = [rthreads EXCEPT ![id] =
              [r EXCEPT !.st = "read",
                        !.aff = ReadAffinity(bits,
                            ViewWords(seg.words, StructWords(bits)))]]
        /\ seg' = SegClose(seg)
        /\ UNCHANGED <<env, alive, affinity, mods, ctl, launchers, disp,
                       hist, faulted>>

\* an agent that sets the attribute of every window of its process
DllMainSet_AllWindows(id) ==
    LET r == rthreads[id]
    IN  /\ r.st = "read"
        /\ rthreads' = [rthreads EXCEPT ![id] = Ended(r, AgentLoadResult)]
        /\ affinity' = [w \in Windows |->
                            IF alive[w] /\ env.owner[w] = r.pid THEN r.aff
                            ELSE affinity[w]]
        /\ UNCHANGED <<env, alive, mods, seg, ctl, launchers, disp, hist,
                       faulted>>

\* DllMain, continued: IsWindow and SetWindowDisplayAffinity(hwnd, affinity),
\* which succeeds only in the process that owns the window; returns TRUE
DllMainSet(id) ==
    LET r == rthreads[id]
        h == r.hwnd
    IN  /\ r.st = "read"
        /\ rthreads' = [rthreads EXCEPT ![id] = Ended(r, AgentLoadResult)]
        /\ UNCHANGED <<env, alive, mods, seg, ctl, launchers, disp, hist>>
        /\ \/ /\ ~AgentHwndLive(h)
              /\ UNCHANGED <<affinity, faulted>>
           \/ /\ AgentHwndLive(h)
              /\ env.owner[h.lo] = r.pid
              /\ affinity' = [affinity EXCEPT ![h.lo] = r.aff]
              /\ UNCHANGED faulted
           \/ /\ AgentHwndLive(h)
              /\ env.owner[h.lo] # r.pid
              /\ UNCHANGED <<affinity, faulted>>
           \/ \* the call is refused although the caller owns the window
              /\ AgentHwndLive(h)
              /\ env.owner[h.lo] = r.pid
              /\ faulted' = TRUE
              /\ UNCHANGED affinity

\* an agent that resets the attribute of its process's windows when it is
\* detached
FreeLibrary_Detaches(id) ==
    LET r == rthreads[id]
    IN  /\ r.st = "new"
        /\ r.kind = "free"
        /\ mods' = [mods EXCEPT ![r.pid][r.mod] = IF @ > 0 THEN @ - 1 ELSE 0]
        /\ affinity' = [w \in Windows |->
                            IF env.owner[w] = r.pid THEN WDA_NONE
                            ELSE affinity[w]]
        /\ rthreads' = [rthreads EXCEPT ![id] = Ended(r, 1)]
        /\ UNCHANGED <<env, alive, seg, ctl, launchers, disp, hist, faulted>>

\* FreeLibrary(hMod) as the entry point of a remote thread: one reference
\* less; the module is unmapped with its last reference
FreeLibrary(id) ==
    LET r == rthreads[id]
    IN  /\ r.st = "new"
        /\ r.kind = "free"
        /\ mods' = [mods EXCEPT ![r.pid][r.mod] = IF @ > 0 THEN @ - 1 ELSE 0]
        /\ rthreads' = [rthreads EXCEPT ![id] = Ended(r, 1)]
        /\ UNCHANGED <<env, alive, affinity, seg, ctl, launchers, disp,
                       hist, faulted>>

(***************************************************************************)
(* RemoteFreeLibrary (injector.cpp and launcher_main.cpp): a remote thread *)
(* on FreeLibrary, waited for 5 s.                                         *)
(***************************************************************************)
\* cbits is the bit-width of the process that creates the thread
NewFreeThread(p, m, cbits) ==
    [NoThread EXCEPT !.st = "new", !.kind = "free", !.pid = p, !.mod = m,
                     !.owned = TRUE, !.cbits = cbits]

NewLoadThread(p, m, cbits) ==
    [NoThread EXCEPT !.st = "new", !.kind = "load", !.pid = p, !.mod = m,
                     !.buf = "valid", !.owned = TRUE, !.cbits = cbits]

\* WaitForSingleObject(hThread, ms) returned and the thread had ended
Joined(id) == rthreads[id].st = "done"

\* the thread handle is closed: an ended thread is gone, one that has not
\* ended runs on without its creator
CloseThread(id) ==
    IF Joined(id)
    THEN [rthreads EXCEPT ![id] = NoThread]
    ELSE [rthreads EXCEPT ![id].owned = FALSE]

\* the same, after VirtualFreeEx of the path buffer the thread was given
CloseThreadFreeBuf(id) ==
    IF Joined(id)
    THEN [rthreads EXCEPT ![id] = NoThread]
    ELSE [rthreads EXCEPT ![id].owned = FALSE, ![id].buf = "freed"]

(***************************************************************************)
(* InjectWDASetAffinity (injector.cpp:248-451), run by controller thread t *)
(***************************************************************************)
\* lines 250-284: the entry checks and the resolution of the module paths
InjectBegin(t, h, a, u) ==
    LET path == IF FileExists("same") THEN "same" ELSE "legacy"
        l == [InitLoc EXCEPT !.op = "apply", !.hwnd = h, !.affinity = a,
                             !.autoUnload = u, !.sameDllPath = path]
    IN  IF h = NULL
        THEN /\ loc' = [loc EXCEPT ![t] = l]
             /\ pc' = [pc EXCEPT ![t] = "ret"]
        ELSE IF ~alive[h]
        THEN /\ loc' = [loc EXCEPT ![t] =
                       [l EXCEPT !.lastErr = ERROR_INVALID_WINDOW_HANDLE]]
             /\ pc' = [pc EXCEPT ![t] = "ret"]
        ELSE IF ~FileExists(path)
        THEN /\ loc' = [loc EXCEPT ![t] =
                       [l EXCEPT !.lastErr = ERROR_FILE_NOT_FOUND]]
             /\ pc' = [pc EXCEPT ![t] = "ret"]
        ELSE /\ loc' = [loc EXCEPT ![t] = l]
             /\ pc' = [pc EXCEPT ![t] = "a_write"]

\* CreateSharedData, lines 53-68: creates or opens the section, maps it and
\* stores pData->hwnd
CreateSharedData(t) ==
    /\ pc[t] = "a_write"
    /\ UNCHANGED <<env, alive, affinity, mods, rthreads, launchers, disp,
                   hist>>
    /\ \/ \* CreateFileMappingW or MapViewOfFile fails
          /\ pc' = [pc EXCEPT ![t] = "ret"]
          /\ loc' = [loc EXCEPT ![t].lastErr = ERROR_ACCESS_DENIED]
          /\ faulted' = TRUE
          /\ UNCHANGED seg
       \/ /\ seg' = [handles |-> seg.handles + 1,
                     words |-> WriteHwnd(env.bits,
                                  IF seg.handles = 0
                                  THEN ZeroWords(StructWords(env.bits))
                                  ELSE seg.words,
                                  loc[t].hwnd)]
          /\ loc' = [loc EXCEPT ![t].hMap = "open"]
          /\ pc' = [pc EXCEPT ![t] = "a_write2"]
          /\ UNCHANGED faulted

\* CreateSharedData, lines 69-71: stores pData->affinity and unmaps
SharedWriteAffinity(t) ==
    /\ pc[t] = "a_write2"
    /\ seg' = [seg EXCEPT !.words = WriteAffinity(env.bits, @, loc[t].affinity)]
    /\ pc' = [pc EXCEPT ![t] = "a_open"]
    /\ UNCHANGED <<env, alive, affinity, mods, loc, rthreads,
                   launchers, disp, hist, faulted>>

\* an apply that goes on when OpenProcess is denied
OpenTarget_GoesOn(t) ==
    LET h == loc[t].hwnd
        pid == IF alive[h] THEN env.owner[h] ELSE 0
    IN  /\ pc[t] = "a_open"
        /\ UNCHANGED <<env, alive, affinity, mods, seg, rthreads, launchers,
                       disp, hist>>
        /\ \/ /\ pid = 0
              /\ pc' = [pc EXCEPT ![t] = "a_closeMap"]
              /\ loc' = [loc EXCEPT ![t].lastErr = ERROR_INVALID_WINDOW_HANDLE]
              /\ UNCHANGED faulted
           \/ /\ pid # 0
              /\ loc' = [loc EXCEPT ![t].pid = pid,
                                    ![t].archMismatch = IsArchMismatch(pid),
                                    ![t].i = 1,
                                    ![t].lastErr = ERROR_ACCESS_DENIED]
              /\ pc' = [pc EXCEPT ![t] =
                          IF IsArchMismatch(pid) THEN "a_cross" ELSE "a_evict"]
              /\ faulted' = TRUE
           \/ /\ pid # 0
              /\ loc' = [loc EXCEPT ![t].pid = pid, ![t].hProcess = "open",
                                    ![t].archMismatch = IsArchMismatch(pid),
                                    ![t].i = 1]
              /\ pc' = [pc EXCEPT ![t] =
                          IF IsArchMismatch(pid) THEN "a_cross" ELSE "a_evict"]
              /\ UNCHANGED faulted

\* lines 297-324: GetWindowThreadProcessId, OpenProcess, IsArchMismatch
OpenTarget(t) ==
    LET h == loc[t].hwnd
        pid == IF alive[h] THEN env.owner[h] ELSE 0
    IN  /\ pc[t] = "a_open"
        /\ UNCHANGED <<env, alive, affinity, mods, seg, rthreads, launchers,
                       disp, hist>>
        /\ \/ /\ pid = 0
              /\ pc' = [pc EXCEPT ![t] = "a_closeMap"]
              /\ loc' = [loc EXCEPT ![t].lastErr = ERROR_INVALID_WINDOW_HANDLE]
              /\ UNCHANGED faulted
           \/ \* OpenProcess is denied
              /\ pid # 0
              /\ pc' = [pc EXCEPT ![t] = "a_closeMap"]
              /\ loc' = [loc EXCEPT ![t].pid = pid,
                                    ![t].lastErr = ERROR_ACCESS_DENIED]
              /\ faulted' = TRUE
           \/ /\ pid # 0
              /\ loc' = [loc EXCEPT ![t].pid = pid, ![t].hProcess = "open",
                                    ![t].archMismatch = IsArchMismatch(pid),
                                    ![t].i = 1]
              /\ pc' = [pc EXCEPT ![t] =
                          IF IsArchMismatch(pid) THEN "a_cross" ELSE "a_evict"]
              /\ UNCHANGED faulted

\* lines 379-386, one iteration: FindRemoteDll(n) and, when found,
\* RemoteFreeLibrary up to CreateRemoteThread
NextEvict(t) == IF loc[t].i < Len(EvictNames) THEN "a_evict" ELSE "a_load"

EvictStale(t) ==
    LET n == EvictNames[loc[t].i]
        p == loc[t].pid
    IN  /\ pc[t] = "a_evict"
        /\ UNCHANGED <<env, alive, affinity, mods, seg, launchers,
                       disp, hist>>
        /\ \/ /\ ~FindRemoteDll(env.bits, p, n)
              /\ pc' = [pc EXCEPT ![t] = NextEvict(t)]
              /\ loc' = [loc EXCEPT ![t].i = @ + 1]
              /\ UNCHANGED <<rthreads, faulted>>
           \/ \* EnumProcessModules or CreateRemoteThread fails
              /\ FindRemoteDll(env.bits, p, n)
              /\ pc' = [pc EXCEPT ![t] = NextEvict(t)]
              /\ loc' = [loc EXCEPT ![t].i = @ + 1]
              /\ faulted' = TRUE
              /\ UNCHANGED rthreads
           \/ /\ FindRemoteDll(env.bits, p, n)
              /\ FreeRIds # {}
              /\ rthreads' = [rthreads EXCEPT ![NewRId] = NewFreeThread(p, n, env.bits)]
              /\ loc' = [loc EXCEPT ![t].rt = NewRId, ![t].direct = TRUE]
              /\ pc' = [pc EXCEPT ![t] = "a_evictWait"]
              /\ UNCHANGED faulted

\* RemoteFreeLibrary, lines 121-122: the wait of 5 s and CloseHandle
EvictWait(t) ==
    /\ pc[t] = "a_evictWait"
    /\ rthreads' = CloseThread(loc[t].rt)
    /\ faulted' = (faulted \/ ~Joined(loc[t].rt))
    /\ pc' = [pc EXCEPT ![t] = NextEvict(t)]
    /\ loc' = [loc EXCEPT ![t].rt = 0, ![t].i = @ + 1]
    /\ UNCHANGED <<env, alive, affinity, mods, seg, launchers,
                   disp, hist>>

\* RemoteLoadLibrary, lines 150-182: VirtualAllocEx, WriteProcessMemory and
\* CreateRemoteThread on LoadLibraryW; a failure returns 0 and line 390
\* leaves the inner block
RemoteLoadLibrary(t) ==
    LET p == loc[t].pid
    IN  /\ pc[t] = "a_load"
        /\ UNCHANGED <<env, alive, affinity, mods, seg, launchers, disp,
                       hist>>
        /\ \/ \* VirtualAllocEx, WriteProcessMemory or CreateRemoteThread fails
              /\ loc' = [loc EXCEPT ![t].exitCode = 0,
                                    ![t].lastErr = ERROR_ACCESS_DENIED]
              /\ pc' = [pc EXCEPT ![t] = "a_closeProc"]
              /\ faulted' = TRUE
              /\ UNCHANGED rthreads
           \/ /\ FreeRIds # {}
              /\ rthreads' = [rthreads EXCEPT ![NewRId] =
                                 NewLoadThread(p, loc[t].sameDllPath, env.bits)]
              /\ loc' = [loc EXCEPT ![t].rt = NewRId, ![t].direct = TRUE]
              /\ pc' = [pc EXCEPT ![t] = "a_loadWait"]
              /\ UNCHANGED faulted

\* GetExitCodeThread after the wait: the exit code of a thread that ended,
\* STILL_ACTIVE of one that has not
ExitCodeThread(id) ==
    IF Joined(id) THEN rthreads[id].exit ELSE STILL_ACTIVE

\* a check of the load result that never reports a failure
LoadFailed_Never(code) == FALSE

\* line 390: the result of RemoteLoadLibrary is zero
LoadFailed(code) == code = 0

\* RemoteLoadLibrary, lines 185-193: the wait of 8 s, GetExitCodeThread,
\* CloseHandle, VirtualFreeEx; then line 390
LoadWait(t) ==
    LET code == ExitCodeThread(loc[t].rt)
    IN  /\ pc[t] = "a_loadWait"
        /\ rthreads' = CloseThreadFreeBuf(loc[t].rt)
        /\ faulted' = (faulted \/ ~Joined(loc[t].rt))
        /\ loc' = [loc EXCEPT ![t].rt = 0, ![t].exitCode = code]
        /\ pc' = [pc EXCEPT ![t] = IF LoadFailed(code) THEN "a_closeProc"
                                   ELSE "a_verify"]
        /\ UNCHANGED <<env, alive, affinity, mods, seg, launchers,
                       disp, hist>>

\* a comparison that accepts every read-back
Verified_Always(actual, a) == TRUE

\* the comparison of the read-back with the requested affinity
Verified(actual, a) == actual = a

\* lines 399-424: GetWindowDisplayAffinity and the comparison
VerifyAffinity(t) ==
    LET h == loc[t].hwnd
    IN  /\ pc[t] = "a_verify"
        /\ loc' = [loc EXCEPT ![t] =
              IF env.gwda /\ alive[h]
              THEN [@ EXCEPT !.queried = TRUE, !.actual = affinity[h],
                             !.success = Verified(affinity[h], loc[t].affinity)]
              ELSE [@ EXCEPT !.success = TRUE]]
        /\ pc' = [pc EXCEPT ![t] = "a_unload"]
        /\ UNCHANGED <<env, alive, affinity, mods, seg, rthreads,
                       launchers, disp, hist, faulted>>

\* the module lines 428-429 find: the arch-named one, else the legacy one
AutoUnloadModule(p) ==
    IF FindRemoteDll(env.bits, p, "same") THEN "same"
    ELSE IF FindRemoteDll(env.bits, p, "legacy") THEN "legacy"
    ELSE "none"

\* lines 427-434: the auto-unload, up to CreateRemoteThread on FreeLibrary
AutoUnload(t) ==
    LET p == loc[t].pid
        m == AutoUnloadModule(p)
    IN  /\ pc[t] = "a_unload"
        /\ UNCHANGED <<env, alive, affinity, mods, seg, launchers,
                       disp, hist>>
        /\ \/ /\ ~loc[t].autoUnload \/ m = "none"
              /\ pc' = [pc EXCEPT ![t] = "a_closeProc"]
              /\ UNCHANGED <<loc, rthreads, faulted>>
           \/ \* EnumProcessModules or CreateRemoteThread fails
              /\ loc[t].autoUnload
              /\ m # "none"
              /\ pc' = [pc EXCEPT ![t] = "a_closeProc"]
              /\ faulted' = TRUE
              /\ UNCHANGED <<loc, rthreads>>
           \/ /\ loc[t].autoUnload
              /\ m # "none"
              /\ FreeRIds # {}
              /\ rthreads' = [rthreads EXCEPT ![NewRId] = NewFreeThread(p, m, env.bits)]
              /\ loc' = [loc EXCEPT ![t].rt = NewRId, ![t].direct = TRUE]
              /\ pc' = [pc EXCEPT ![t] = "a_unloadWait"]
              /\ UNCHANGED faulted

\* an auto-unload whose outcome is reported as the result of the call
AutoUnloadWait_Reports(t) ==
    /\ pc[t] = "a_unloadWait"
    /\ rthreads' = CloseThread(loc[t].rt)
    /\ faulted' = (faulted \/ ~Joined(loc[t].rt))
    /\ pc' = [pc EXCEPT ![t] = "a_closeProc"]
    /\ loc' = [loc EXCEPT ![t].rt = 0,
                          ![t].success = @ /\ Joined(loc[t].rt)]
    /\ UNCHANGED <<env, alive, affinity, mods, seg, launchers,
                   disp, hist>>

\* RemoteFreeLibrary, lines 121-122, for the auto-unload
AutoUnloadWait(t) ==
    /\ pc[t] = "a_unloadWait"
    /\ rthreads' = CloseThread(loc[t].rt)
    /\ faulted' = (faulted \/ ~Joined(loc[t].rt))
    /\ pc' = [pc EXCEPT ![t] = "a_closeProc"]
    /\ loc' = [loc EXCEPT ![t].rt = 0]
    /\ UNCHANGED <<env, alive, affinity, mods, seg, launchers,
                   disp, hist>>

\* a cleanup that leaves the process handle open
CloseProcess_Skipped(t) ==
    /\ pc[t] = "a_closeProc"
    /\ pc' = [pc EXCEPT ![t] = "a_closeMap"]
    /\ UNCHANGED <<env, alive, affinity, mods, seg, loc, rthreads,
                   launchers, disp, hist, faulted>>

\* line 438: CloseHandle(hProcess)
CloseProcess(t) ==
    /\ pc[t] = "a_closeProc"
    /\ loc' = [loc EXCEPT ![t].hProcess =
                  IF @ = "open" THEN "closed" ELSE "invalid"]
    /\ pc' = [pc EXCEPT ![t] = "a_closeMap"]
    /\ UNCHANGED <<env, alive, affinity, mods, seg, rthreads,
                   launchers, disp, hist, faulted>>

\* lines 441-450: CloseHandle(hMap); return success
CloseMap(t) ==
    /\ pc[t] = "a_closeMap"
    /\ seg' = SegClose(seg)
    /\ loc' = [loc EXCEPT ![t].hMap = IF @ = "open" THEN "closed"
                                      ELSE "invalid",
                          ![t].ret = loc[t].success]
    /\ pc' = [pc EXCEPT ![t] = "ret"]
    /\ UNCHANGED <<env, alive, affinity, mods, rthreads, launchers,
                   disp, hist, faulted>>

(***************************************************************************)
(* The cross-architecture path of InjectWDASetAffinity (lines 326-373) and *)
(* SpawnLauncherForPid (lines 200-245).                                    *)
(***************************************************************************)
NewLauncher(p, m, unloadOnly) ==
    [NoLauncher EXCEPT !.st = "start", !.bits = Other(env.bits), !.pid = p,
                       !.mod = m, !.unloadOnly = unloadOnly, !.owned = TRUE]

\* a check that takes the opposite-bitness files for present
LauncherFilesPresent_Unchecked == TRUE

\* lines 335 and 209: the opposite-bitness module and the opposite-bitness
\* launcher are next to the controller
LauncherFilesPresent == FileExists("opp") /\ FileExists("launcher")

\* lines 335-346 and 208-231: the files are checked and the launcher is
\* started with "<pid> <oppDllPath>"
SpawnLauncherForPid(t) ==
    /\ pc[t] = "a_cross"
    /\ UNCHANGED <<env, alive, affinity, mods, seg, rthreads, disp, hist>>
    /\ \/ /\ ~LauncherFilesPresent
          /\ loc' = [loc EXCEPT ![t].lastErr = ERROR_FILE_NOT_FOUND]
          /\ pc' = [pc EXCEPT ![t] = "a_closeProc"]
          /\ UNCHANGED <<launchers, faulted>>
       \/ \* CreateProcessW fails
          /\ LauncherFilesPresent
          /\ loc' = [loc EXCEPT ![t].lastErr = ERROR_ACCESS_DENIED]
          /\ pc' = [pc EXCEPT ![t] = "a_closeProc"]
          /\ faulted' = TRUE
          /\ UNCHANGED launchers
       \/ /\ LauncherFilesPresent
          /\ FreeLIds # {}
          /\ launchers' = [launchers EXCEPT ![NewLId] =
                              NewLauncher(loc[t].pid, "opp", FALSE)]
          /\ loc' = [loc EXCEPT ![t].lid = NewLId, ![t].launched = TRUE]
          /\ pc' = [pc EXCEPT ![t] = "a_lwait"]
          /\ UNCHANGED faulted

Exited(id) == launchers[id].st = "exited"

\* GetExitCodeProcess after the wait
ExitCodeProcess(id) ==
    IF Exited(id) THEN launchers[id].exit ELSE STILL_ACTIVE

\* a mapping that takes every exit code for success
LauncherSucceeded_Always(code) == TRUE

\* line 239: the launcher's exit code is 0
LauncherSucceeded(code) == code = 0

\* lines 233-245 and 346: the wait of 12 s for the launcher and the mapping
\* of its exit code
LauncherWait(t) ==
    LET id == loc[t].lid
        code == ExitCodeProcess(id)
    IN  /\ pc[t] = "a_lwait"
        /\ launchers' = IF Exited(id)
                        THEN [launchers EXCEPT ![id] = NoLauncher]
                        ELSE [launchers EXCEPT ![id].owned = FALSE]
        /\ faulted' = (faulted \/ ~Exited(id))
        /\ loc' = [loc EXCEPT ![t].lid = 0, ![t].exitCode = code,
                              ![t].success = LauncherSucceeded(code)]
        /\ pc' = [pc EXCEPT ![t] = IF LauncherSucceeded(code)
                                   THEN "a_xverify"
                                   ELSE "a_closeProc"]
        /\ UNCHANGED <<env, alive, affinity, mods, seg, rthreads,
                       disp, hist>>

\* lines 355-372: the best-effort read-back on the cross-architecture path
CrossVerify(t) ==
    LET h == loc[t].hwnd
    IN  /\ pc[t] = "a_xverify"
        /\ loc' = [loc EXCEPT ![t] =
              IF env.gwda /\ alive[h]
              THEN [@ EXCEPT !.queried = TRUE, !.actual = affinity[h],
                             !.success = Verified(affinity[h], loc[t].affinity)]
              ELSE @]
        /\ pc' = [pc EXCEPT ![t] = "a_closeProc"]
        /\ UNCHANGED <<env, alive, affinity, mods, seg, rthreads,
                       launchers, disp, hist, faulted>>

(***************************************************************************)
(* wmain of the launcher (launcher_main.cpp:77-159), a process of the      *)
(* target's bit-width.                                                     *)
(***************************************************************************)
\* a launcher that exits: the injector reads the exit code if it still
\* waits for the process
ExitWith(l, code) ==
    IF l.owned
    THEN [l EXCEPT !.st = "exited", !.exit = code, !.rt = 0,
                   !.hProcess = IF @ = "open" THEN "closed" ELSE @]
    ELSE NoLauncher

\* lines 79-106: the arguments and OpenProcess
LauncherOpen(id) ==
    LET l == launchers[id]
    IN  /\ l.st = "start"
        /\ UNCHANGED <<env, alive, affinity, mods, seg, ctl, rthreads, disp,
                       hist>>
        /\ \/ \* OpenProcess fails: return 1
              /\ launchers' = [launchers EXCEPT ![id] = ExitWith(l, 1)]
              /\ faulted' = TRUE
           \/ /\ launchers' = [launchers EXCEPT ![id].st = "evict",
                                                ![id].hProcess = "open"]
              /\ UNCHANGED faulted

\* the agent module of the bit-width of process p
AgentFor(p) == IF p \in env.mism THEN "opp" ELSE "same"

\* the command lines of the launcher: argc, the value _wtol gives for
\* argv[1] (0 for a text that is no number), and whether argv[3] is "unload"
CmdLines ==
    { [argc |-> n, pid |-> p, unload |-> u] :
          n \in 1..4, p \in {0} \cup Procs, u \in BOOLEAN }

\* lines 77-91: wmain of a launcher started from a command line, of the
\* target's bit-width and with the agent of that bit-width as argv[2]:
\* fewer than two arguments or a pid of 0 return 1
LauncherMain(c) ==
    LET l == [NoLauncher EXCEPT !.owned = TRUE,
                                !.unloadArg = (c.argc >= 4 /\ c.unload)]
    IN  /\ FreeLIds # {}
        /\ launchers' = [launchers EXCEPT ![NewLId] =
              IF c.argc < 3 \/ c.pid = 0
              THEN [l EXCEPT !.st = "exited", !.exit = 1]
              ELSE [l EXCEPT !.st = "start",
                             !.bits = ProcBits(c.pid),
                             !.pid = c.pid,
                             !.mod = AgentFor(c.pid),
                             !.unloadOnly = (c.argc >= 4 /\ c.unload)]]
        /\ UNCHANGED <<env, alive, affinity, mods, seg, pc, loc, rthreads,
                       chan, wk, watch, dsp, hist, faulted>>

\* line 158: the process that started the launcher from a command line
\* has its exit code
LauncherReturned(id) ==
    /\ Exited(id)
    /\ \A t \in Threads : loc[t].lid # id
    /\ launchers' = [launchers EXCEPT ![id] = NoLauncher]
    /\ UNCHANGED <<env, alive, affinity, mods, seg, pc, loc, rthreads,
                   chan, wk, watch, dsp, hist, faulted>>

\* a launcher that goes on to the load in unload mode as well
AfterEvict_Loads(l) == [l EXCEPT !.st = "load", !.rt = 0]

\* where the launcher goes after the eviction step: lines 116 and 157-158
AfterEvict(l) ==
    IF l.unloadOnly THEN ExitWith(l, 0) ELSE [l EXCEPT !.st = "load", !.rt = 0]

\* a launcher that leaves out the eviction
LauncherEvict_Skipped(id) ==
    LET l == launchers[id]
    IN  /\ l.st = "evict"
        /\ launchers' = [launchers EXCEPT ![id] =
              IF l.unloadOnly THEN ExitWith(l, 0)
              ELSE [l EXCEPT !.st = "load", !.rt = 0]]
        /\ UNCHANGED <<env, alive, affinity, mods, seg, pc, loc, rthreads,
                       chan, wk, watch, dsp, hist, faulted>>

\* lines 112-114: FindRemoteDll(dllName) and RemoteFreeLibrary up to
\* CreateRemoteThread
LauncherEvict(id) ==
    LET l == launchers[id]
        found == FindRemoteDll(l.bits, l.pid, l.mod)
    IN  /\ l.st = "evict"
        /\ UNCHANGED <<env, alive, affinity, mods, seg, ctl, disp, hist>>
        /\ \/ /\ ~found
              /\ launchers' = [launchers EXCEPT ![id] = AfterEvict(l)]
              /\ UNCHANGED <<rthreads, faulted>>
           \/ \* EnumProcessModules or CreateRemoteThread fails
              /\ found
              /\ launchers' = [launchers EXCEPT ![id] = AfterEvict(l)]
              /\ faulted' = TRUE
              /\ UNCHANGED rthreads
           \/ /\ found
              /\ FreeRIds # {}
              /\ rthreads' = [rthreads EXCEPT ![NewRId] =
                                 NewFreeThread(l.pid, l.mod, l.bits)]
              /\ launchers' = [launchers EXCEPT ![id].st = "evictWait",
                                                ![id].rt = NewRId]
              /\ UNCHANGED faulted

\* lines 72-73: the wait of 5 s and CloseHandle
LauncherEvictWait(id) ==
    LET l == launchers[id]
    IN  /\ l.st = "evictWait"
        /\ rthreads' = CloseThread(l.rt)
        /\ faulted' = (faulted \/ ~Joined(l.rt))
        /\ launchers' = [launchers EXCEPT ![id] = AfterEvict(l)]
        /\ UNCHANGED <<env, alive, affinity, mods, seg, ctl, disp, hist>>

\* lines 119-144: VirtualAllocEx, WriteProcessMemory, CreateRemoteThread on
\* LoadLibraryW; a failure leaves result = 1
LauncherLoad(id) ==
    LET l == launchers[id]
    IN  /\ l.st = "load"
        /\ UNCHANGED <<env, alive, affinity, mods, seg, ctl, disp, hist>>
        /\ \/ /\ launchers' = [launchers EXCEPT ![id] = ExitWith(l, 1)]
              /\ faulted' = TRUE
              /\ UNCHANGED rthreads
           \/ /\ FreeRIds # {}
              /\ rthreads' = [rthreads EXCEPT ![NewRId] =
                                 NewLoadThread(l.pid, l.mod, l.bits)]
              /\ launchers' = [launchers EXCEPT ![id].st = "loadWait",
                                                ![id].rt = NewRId]
              /\ UNCHANGED faulted

\* line 153: result = (exitCode != 0) ? 0 : 1
LauncherResult(code) == IF code # 0 THEN 0 ELSE 1

\* lines 146-158: the wait of 10 s, GetExitCodeThread, the release of the
\* buffer, and the exit code of the process
LauncherLoadWait(id) ==
    LET l == launchers[id]
        code == ExitCodeThread(l.rt)
    IN  /\ l.st = "loadWait"
        /\ rthreads' = CloseThreadFreeBuf(l.rt)
        /\ faulted' = (faulted \/ ~Joined(l.rt))
        /\ launchers' = [launchers EXCEPT ![id] =
                            ExitWith([l EXCEPT !.exitCode = code],
                                     LauncherResult(code))]
        /\ UNCHANGED <<env, alive, affinity, mods, seg, ctl, disp, hist>>

(***************************************************************************)
(* UnloadInjectedDll (injector.cpp:454-507), run by controller thread t.   *)
(***************************************************************************)
\* lines 456-483: the entry checks, GetWindowThreadProcessId, OpenProcess
UnloadBegin(t, h) ==
    LET l == [InitLoc EXCEPT !.op = "unload", !.hwnd = h]
    IN  /\ UNCHANGED <<rthreads, launchers>>
        /\ \/ /\ h = NULL
              /\ loc' = [loc EXCEPT ![t] = l]
              /\ pc' = [pc EXCEPT ![t] = "ret"]
              /\ UNCHANGED faulted
           \/ /\ h # NULL
              /\ ~alive[h]
              /\ loc' = [loc EXCEPT ![t] =
                    [l EXCEPT !.lastErr = ERROR_INVALID_WINDOW_HANDLE]]
              /\ pc' = [pc EXCEPT ![t] = "ret"]
              /\ UNCHANGED faulted
           \/ \* OpenProcess is denied
              /\ h # NULL
              /\ alive[h]
              /\ loc' = [loc EXCEPT ![t] =
                    [l EXCEPT !.pid = env.owner[h],
                              !.lastErr = ERROR_ACCESS_DENIED]]
              /\ pc' = [pc EXCEPT ![t] = "ret"]
              /\ faulted' = TRUE
           \/ /\ h # NULL
              /\ alive[h]
              /\ loc' = [loc EXCEPT ![t] =
                    [l EXCEPT !.pid = env.owner[h], !.hProcess = "open",
                              !.i = 1]]
              /\ pc' = [pc EXCEPT ![t] = "u_scan"]
              /\ UNCHANGED faulted

NextUnload(t) == IF loc[t].i < Len(UnloadNames) THEN "u_scan" ELSE "u_close"

\* lines 487-497, one iteration: FindRemoteDll(name) and, when found,
\* RemoteFreeLibrary up to CreateRemoteThread
UnloadScan(t) ==
    LET n == UnloadNames[loc[t].i]
        p == loc[t].pid
    IN  /\ pc[t] = "u_scan"
        /\ UNCHANGED <<env, alive, affinity, mods, seg, launchers,
                       disp, hist>>
        /\ \/ /\ ~FindRemoteDll(env.bits, p, n)
              /\ pc' = [pc EXCEPT ![t] = NextUnload(t)]
              /\ loc' = [loc EXCEPT ![t].i = @ + 1]
              /\ UNCHANGED <<rthreads, faulted>>
           \/ \* EnumProcessModules or CreateRemoteThread fails
              /\ FindRemoteDll(env.bits, p, n)
              /\ pc' = [pc EXCEPT ![t] = NextUnload(t)]
              /\ loc' = [loc EXCEPT ![t].i = @ + 1]
              /\ faulted' = TRUE
              /\ UNCHANGED rthreads
           \/ /\ FindRemoteDll(env.bits, p, n)
              /\ FreeRIds # {}
              /\ rthreads' = [rthreads EXCEPT ![NewRId] = NewFreeThread(p, n, env.bits)]
              /\ loc' = [loc EXCEPT ![t].rt = NewRId, ![t].direct = TRUE]
              /\ pc' = [pc EXCEPT ![t] = "u_wait"]
              /\ UNCHANGED faulted

\* RemoteFreeLibrary, lines 121-122, for UnloadInjectedDll
UnloadWait(t) ==
    /\ pc[t] = "u_wait"
    /\ rthreads' = CloseThread(loc[t].rt)
    /\ faulted' = (faulted \/ ~Joined(loc[t].rt))
    /\ pc' = [pc EXCEPT ![t] = NextUnload(t)]
    /\ loc' = [loc EXCEPT ![t].rt = 0, ![t].i = @ + 1]
    /\ UNCHANGED <<env, alive, affinity, mods, seg, launchers,
                   disp, hist>>

\* lines 499-506: CloseHandle(hProcess); return true
UnloadClose(t) ==
    /\ pc[t] = "u_close"
    /\ loc' = [loc EXCEPT ![t].hProcess = IF @ = "open" THEN "closed"
                                          ELSE "invalid",
                          ![t].ret = TRUE]
    /\ pc' = [pc EXCEPT ![t] = "ret"]
    /\ UNCHANGED <<env, alive, affinity, mods, seg, rthreads,
                   launchers, disp, hist, faulted>>

(***************************************************************************)
(* The callers (main.cpp): the dialog thread calls the injector from its   *)
(* handlers, the worker thread from its WatchCheck handling.               *)
(***************************************************************************)
\* first: the call is the first one that returned since the start
CallOf(l) == [op |-> l.op, hwnd |-> l.hwnd, affinity |-> l.affinity,
              autoUnload |-> l.autoUnload, ret |-> l.ret,
              first |-> hist.op = "none"]

\* DlgProc, lines 1428-1432 and 1597-1602: the checkbox of a listed window
\* or the context menu calls InjectWDASetAffinity(hwnd, affinity,
\* g_autoUnloadDll) on the dialog thread
UiApply(h, a, u) ==
    /\ pc["ui"] = "idle"
    /\ InjectBegin("ui", h, a, u)
    /\ UNCHANGED <<env, alive, affinity, mods, seg, rthreads, launchers,
                   chan, wk, watch, dsp, hist, faulted>>

\* DlgProc, lines 1644-1647: the context menu calls UnloadInjectedDll
UiUnload(h) ==
    /\ pc["ui"] = "idle"
    /\ UnloadBegin("ui", h)
    /\ UNCHANGED <<env, alive, affinity, mods, seg, chan, wk, watch, dsp, hist>>

\* the call returns to the handler that made it
Return(t) ==
    /\ pc[t] = "ret"
    /\ loc' = [loc EXCEPT ![t] = InitLoc]
    /\ pc' = [pc EXCEPT ![t] = IF t = "ui" THEN "idle" ELSE "w_inject"]
    /\ UNCHANGED <<env, alive, affinity, mods, seg, rthreads,
                   launchers, disp, hist, faulted>>

\* the same on the dialog thread, with the call noted as the last one that
\* returned
UiReturn ==
    /\ pc["ui"] = "ret"
    /\ hist' = CallOf(loc["ui"])
    /\ loc' = [loc EXCEPT !["ui"] = InitLoc]
    /\ pc' = [pc EXCEPT !["ui"] = "idle"]
    /\ UNCHANGED <<env, alive, affinity, mods, seg, rthreads,
                   launchers, disp, faulted>>

\* DlgProc, lines 1617-1639: the context menu adds the process of a listed
\* window to g_watchedExeNames
CtxWatch(w) ==
    /\ pc["ui"] = "idle"
    /\ env.owner[w] \notin watch.names
    /\ watch' = [watch EXCEPT !.names = @ \cup {env.owner[w]}]
    /\ UNCHANGED <<env, alive, affinity, mods, seg, ctl, rthreads, launchers,
                   chan, wk, dsp, hist, faulted>>

\* DlgProc, lines 1790-1800: the watch timer sends WatchCheck when there
\* are watched names
WmTimer ==
    /\ pc["ui"] = "idle"
    /\ watch.names # {}
    /\ Len(chan) < MaxQueue
    /\ chan' = Append(chan, "WatchCheck")
    /\ UNCHANGED <<env, alive, affinity, mods, seg, ctl, rthreads, launchers,
                   wk, watch, dsp, hist, faulted>>

\* the windows EnumWindows finds for a process, lines 281-293
WindowsOf(p) == {w \in Windows : alive[w] /\ env.owner[w] = p}

\* a set of numbers as the ascending sequence
RECURSIVE SeqOf(_)
SeqOf(S) ==
    IF S = {} THEN <<>>
    ELSE LET x == CHOOSE y \in S : \A z \in S : y <= z
         IN  <<x>> \o SeqOf(S \ {x})

NoWork == [names |-> {}, pids |-> <<>>, pid |-> 0, hwnds |-> <<>>,
           applied |-> 0]

\* the messages the worker posts to the dialog
WindowsReady == [msg |-> "WM_APP_WINDOWS_READY", wParam |-> 0]
WatchApplied(n) == [msg |-> "WM_APP_WATCH_APPLIED", wParam |-> n]

\* what an unsynchronised read of g_hDlg by the worker can give (lines 226
\* and 309 against the write of line 1871): the value written, or the old
\* one while the worker has not synchronised with the dialog thread
ReadsDlg == IF dsp.hDlg THEN {TRUE}
            ELSE IF dsp.stale THEN {TRUE, FALSE} ELSE {FALSE}

\* a recv that takes the event sent last
RecvEvent_Newest == chan[Len(chan)]

\* Channel::recv, lines 73-80: the oldest event of the queue
RecvEvent == Head(chan)

\* InjectorWorkerProc, lines 216-256: recv; Quit leaves the loop, Update goes
\* on to the enumeration, a WatchCheck takes the snapshot of the watch list,
\* forgets the processed ids of processes that have exited and enumerates
\* the processes
WorkerRecv ==
    /\ pc["worker"] = "w_recv"
    /\ chan # <<>>
    /\ chan' = Tail(chan)
    /\ dsp' = [dsp EXCEPT !.stale = @ /\ pc["ui"] \notin {"d_join", "d_done"}]
    /\ IF RecvEvent = "WatchCheck" /\ watch.names # {}
       THEN /\ watch' = [watch EXCEPT !.pids = @ \ dsp.exited]
            /\ \E enumerated \in BOOLEAN :
                  IF enumerated
                  THEN /\ wk' = [NoWork EXCEPT !.names = watch.names,
                                               !.pids = SeqOf(Procs)]
                       /\ pc' = [pc EXCEPT !["worker"] = "w_pid"]
                  ELSE /\ wk' = NoWork
                       /\ UNCHANGED pc
       ELSE /\ wk' = NoWork
            /\ pc' = [pc EXCEPT !["worker"] =
                        CASE RecvEvent = "Quit" -> "w_exit"
                          [] RecvEvent = "Update" -> "w_enum"
                          [] OTHER -> "w_recv"]
            /\ UNCHANGED watch
    /\ UNCHANGED <<env, alive, affinity, mods, seg, loc, rthreads,
                   launchers, hist, faulted>>

\* lines 221-225: EnumerateWindows, and the result moved into
\* g_pendingWindows
WorkerEnumerate ==
    /\ pc["worker"] = "w_enum"
    /\ dsp' = [dsp EXCEPT !.pending =
                  [list |-> {w \in env.wins : alive[w]}, src |-> "enum"]]
    /\ pc' = [pc EXCEPT !["worker"] = "w_post"]
    /\ UNCHANGED <<env, alive, affinity, mods, seg, loc, rthreads,
                   launchers, chan, wk, watch, hist, faulted>>

\* lines 226-227: WM_APP_WINDOWS_READY is posted when g_hDlg is set
WorkerPostReady ==
    /\ pc["worker"] = "w_post"
    /\ \E seen \in ReadsDlg :
          dsp' = [dsp EXCEPT !.msgs = IF seen THEN Append(@, WindowsReady)
                                      ELSE @]
    /\ pc' = [pc EXCEPT !["worker"] = "w_recv"]
    /\ UNCHANGED <<env, alive, affinity, mods, seg, loc, rthreads,
                   launchers, chan, wk, watch, hist, faulted>>

\* a loop that does not look at g_watchedPids
Skips_Unwatched(p) == p \notin wk.names \/ WindowsOf(p) = {}

\* lines 262-295: the loop goes on to the next process id when this one is
\* in g_watchedPids, has no name of the snapshot, or has no visible titled
\* window
Skips(p) == p \in watch.pids \/ p \notin wk.names \/ WindowsOf(p) = {}

\* lines 260-295 and 309-310, one iteration over the process ids: skips a
\* processed or unwatched process and one without windows; after the last
\* one WM_APP_WATCH_APPLIED is posted when g_hDlg is set and a process was
\* processed
WorkerPid ==
    /\ pc["worker"] = "w_pid"
    /\ IF wk.pids = <<>>
       THEN /\ \E seen \in ReadsDlg :
                  dsp' = [dsp EXCEPT !.msgs =
                             IF seen /\ wk.applied > 0
                             THEN Append(@, WatchApplied(wk.applied))
                             ELSE @]
            /\ wk' = NoWork
            /\ pc' = [pc EXCEPT !["worker"] = "w_recv"]
       ELSE LET p == Head(wk.pids)
            IN  /\ IF Skips(p)
                   THEN /\ wk' = [wk EXCEPT !.pids = Tail(@)]
                        /\ UNCHANGED pc
                   ELSE /\ wk' = [wk EXCEPT !.pids = Tail(@), !.pid = p,
                                            !.hwnds = SeqOf(WindowsOf(p))]
                        /\ pc' = [pc EXCEPT !["worker"] = "w_inject"]
                /\ UNCHANGED dsp
    /\ UNCHANGED <<env, alive, affinity, mods, seg, loc, rthreads,
                   launchers, chan, watch, hist, faulted>>

\* lines 297-307: InjectWDASetAffinity(hwnd, 0x11, true) for each window
\* found, then the process id joins g_watchedPids
WorkerInject ==
    /\ pc["worker"] = "w_inject"
    /\ IF wk.hwnds = <<>>
       THEN /\ watch' = [watch EXCEPT !.pids = @ \cup {wk.pid}]
            /\ wk' = [wk EXCEPT !.applied = @ + 1, !.pid = 0]
            /\ pc' = [pc EXCEPT !["worker"] = "w_pid"]
            /\ UNCHANGED loc
       ELSE /\ InjectBegin("worker", Head(wk.hwnds), WDA_EXCLUDEFROMCAPTURE,
                           TRUE)
            /\ wk' = [wk EXCEPT !.hwnds = Tail(@)]
            /\ UNCHANGED watch
    /\ UNCHANGED <<env, alive, affinity, mods, seg, rthreads, launchers,
                   chan, dsp, hist, faulted>>

(***************************************************************************)
(* The dialog's side of the dispatch: the requests it sends to the worker  *)
(* and the messages the worker posts back.                                 *)
(***************************************************************************)
\* DlgProc, line 1179 (the dialog gains the focus): an Update is sent to
\* the worker
DlgActivate ==
    /\ pc["ui"] = "idle"
    /\ Len(chan) + Len(dsp.msgs) < MaxInFlight
    /\ chan' = Append(chan, "Update")
    /\ UNCHANGED <<env, alive, affinity, mods, seg, ctl, rthreads, launchers,
                   wk, watch, dsp, hist, faulted>>

\* DlgProc, WM_APP_WINDOWS_READY, lines 1817-1846: the pending list is moved
\* out, which leaves it empty, and becomes the list of the dialog
DlgWindowsReady ==
    /\ pc["ui"] = "idle"
    /\ dsp.msgs # <<>>
    /\ Head(dsp.msgs).msg = "WM_APP_WINDOWS_READY"
    /\ dsp' = [dsp EXCEPT !.msgs = Tail(@),
                          !.windows = dsp.pending,
                          !.pending = [list |-> {}, src |-> "moved"]]
    /\ UNCHANGED <<env, alive, affinity, mods, seg, ctl, rthreads, launchers,
                   chan, wk, watch, hist, faulted>>

\* DlgProc, WM_APP_WATCH_APPLIED, lines 1804-1813: the status text, and an
\* Update is sent to the worker
DlgWatchApplied ==
    /\ pc["ui"] = "idle"
    /\ dsp.msgs # <<>>
    /\ Head(dsp.msgs).msg = "WM_APP_WATCH_APPLIED"
    /\ dsp' = [dsp EXCEPT !.msgs = Tail(@)]
    /\ chan' = Append(chan, "Update")
    /\ UNCHANGED <<env, alive, affinity, mods, seg, ctl, rthreads, launchers,
                   wk, watch, hist, faulted>>

\* DlgProc, WM_DESTROY, lines 1869-1871: the timer is killed and g_hDlg is
\* cleared, a plain write the worker reads without synchronisation
DlgDestroy ==
    /\ pc["ui"] = "idle"
    /\ dsp' = [dsp EXCEPT !.hDlg = FALSE, !.stale = TRUE]
    /\ pc' = [pc EXCEPT !["ui"] = "d_quit"]
    /\ UNCHANGED <<env, alive, affinity, mods, seg, loc, rthreads, launchers,
                   chan, wk, watch, hist, faulted>>

\* a destroy handler that joins without sending Quit
DlgQuit_NoSend ==
    /\ pc["ui"] = "d_quit"
    /\ pc' = [pc EXCEPT !["ui"] = "d_join"]
    /\ UNCHANGED <<env, alive, affinity, mods, seg, loc, rthreads, launchers,
                   disp, hist, faulted>>

\* line 1872: Quit is sent to the worker
DlgQuit ==
    /\ pc["ui"] = "d_quit"
    /\ chan' = Append(chan, "Quit")
    /\ pc' = [pc EXCEPT !["ui"] = "d_join"]
    /\ UNCHANGED <<env, alive, affinity, mods, seg, loc, rthreads, launchers,
                   wk, watch, dsp, hist, faulted>>

\* line 1874: join returns when InjectorWorkerProc has returned
DlgJoin ==
    /\ pc["ui"] = "d_join"
    /\ pc["worker"] = "w_exit"
    /\ pc' = [pc EXCEPT !["ui"] = "d_done"]
    /\ UNCHANGED <<env, alive, affinity, mods, seg, loc, rthreads, launchers,
                   disp, hist, faulted>>

(***************************************************************************)
(* The environment.                                                        *)
(***************************************************************************)
\* a window is destroyed by its owner
DestroyWindow(w) ==
    /\ alive[w]
    /\ alive' = [alive EXCEPT ![w] = FALSE]
    /\ UNCHANGED <<env, affinity, mods, seg, ctl, rthreads, launchers, disp,
                   hist, faulted>>

(***************************************************************************)
(* The initial states and the specifications.                              *)
(***************************************************************************)
\* the files next to the controller: the usual deployment, the legacy
\* module name only, no module of the controller's bit-width, no module of
\* the opposite bit-width, no launcher
FileConfigs ==
    { {"same", "opp", "launcher"},
      {"legacy", "opp", "launcher"},
      {"opp", "launcher"},
      {"same", "launcher"},
      {"same", "opp"} }

\* the windows that exist when the controller starts
WindowSets == { 1..n : n \in 1..MaxWindows }

\* which windows exist, who owns them, and which processes have the other
\* bit-width
Worlds ==
    { [wins |-> s, owner |-> o, mism |-> m] :
          s \in WindowSets, o \in [Windows -> Procs], m \in SUBSET Procs }

Envs ==
    { [bits |-> b, gwda |-> g, files |-> f, wins |-> x.wins,
       owner |-> x.owner, mism |-> x.mism] :
          b \in {32, 64}, g \in BOOLEAN, f \in FileConfigs, x \in Worlds }

\* the files of the usual deployment
Deployed == {"same", "opp", "launcher"}

\* the state after WinMain has started the worker threads (main.cpp:1141)
\* and before any window has been touched
Created ==
    /\ alive = [w \in Windows |-> w \in env.wins]
    /\ affinity = [w \in Windows |-> WDA_NONE]
    /\ mods = [p \in Procs |-> [m \in ModNames |-> 0]]
    /\ seg = [handles |-> 0, words |-> <<>>]
    /\ pc = [t \in Threads |-> IF t = "ui" THEN "idle" ELSE "w_recv"]
    /\ loc = [t \in Threads |-> InitLoc]
    /\ rthreads = [id \in RIds |-> NoThread]
    /\ launchers = [id \in LIds |-> NoLauncher]
    /\ wk = NoWork
    /\ watch = [names |-> {}, pids |-> {}]
    /\ dsp = InitDsp
    /\ hist = NoCall
    /\ faulted = FALSE

\* the same with the queue of injector events empty: the first Update has
\* been served
Start ==
    /\ Created
    /\ chan = <<>>

\* one window on the desktop
OneWindow == {1}

\* the 64-bit controller in its usual deployment, with one window of a
\* target of either bit-width
Init ==
    /\ env \in {e \in Envs : /\ e.bits = 64
                             /\ e.gwda
                             /\ e.files = Deployed
                             /\ e.wins = OneWindow}
    /\ Start

\* every build and deployment
InitSerial ==
    /\ env \in {e \in Envs : e.wins = OneWindow}
    /\ Start

\* the steps of an injector call of thread t
InjectorStep(t) ==
    \/ CreateSharedData(t)
    \/ SharedWriteAffinity(t)
    \/ OpenTarget(t)
    \/ EvictStale(t)
    \/ EvictWait(t)
    \/ RemoteLoadLibrary(t)
    \/ LoadWait(t)
    \/ VerifyAffinity(t)
    \/ AutoUnload(t)
    \/ AutoUnloadWait(t)
    \/ SpawnLauncherForPid(t)
    \/ LauncherWait(t)
    \/ CrossVerify(t)
    \/ CloseProcess(t)
    \/ CloseMap(t)
    \/ UnloadScan(t)
    \/ UnloadWait(t)
    \/ UnloadClose(t)

\* the steps of the remote threads and of the launcher processes
RemoteStep ==
    \/ \E id \in RIds :
          \/ LoadLibraryW(id)
          \/ LoadLibraryDangling(id)
          \/ DllMainRead(id)
          \/ DllMainSet(id)
          \/ FreeLibrary(id)
    \/ \E id \in LIds :
          \/ LauncherOpen(id)
          \/ LauncherEvict(id)
          \/ LauncherEvictWait(id)
          \/ LauncherLoad(id)
          \/ LauncherLoadWait(id)

\* the handles the dialog has in its list, and the null handle
Listed == {NULL} \cup env.wins

UiCall ==
    \/ \E h \in Listed, a \in Modes, u \in BOOLEAN : UiApply(h, a, u)
    \/ \E h \in Listed : UiUnload(h)

Next ==
    \/ UiCall
    \/ \E t \in Threads : InjectorStep(t) \/ Return(t)
    \/ RemoteStep
    \/ \E w \in env.wins : CtxWatch(w)
    \/ WmTimer
    \/ WorkerRecv
    \/ WorkerPid
    \/ WorkerInject
    \/ \E w \in Windows : DestroyWindow(w)

Spec == Init /\ [][Next]_vars

\* the runs in which no process is watched: the worker thread never calls
\* the injector, the dialog thread is the only caller
NextSerial ==
    \/ UiCall
    \/ InjectorStep("ui")
    \/ UiReturn
    \/ RemoteStep
    \/ \E w \in Windows : DestroyWindow(w)

SpecSerial == InitSerial /\ [][NextSerial]_vars

\* the runs of the launcher next to a 64-bit controller whose targets are
\* 32-bit processes: the dialog thread is the only caller of the injector,
\* every apply takes the cross-architecture path, and the launcher is
\* started from a command line as well
InitLauncher ==
    /\ env \in {e \in Envs : /\ e.bits = 64
                             /\ e.gwda
                             /\ e.files = Deployed
                             /\ e.wins = OneWindow
                             /\ e.mism = Procs}
    /\ Start

NextLauncher ==
    \/ \E h \in Listed, a \in Modes, u \in BOOLEAN : UiApply(h, a, u)
    \/ CreateSharedData("ui")
    \/ SharedWriteAffinity("ui")
    \/ OpenTarget("ui")
    \/ SpawnLauncherForPid("ui")
    \/ LauncherWait("ui")
    \/ CrossVerify("ui")
    \/ CloseProcess("ui")
    \/ CloseMap("ui")
    \/ UiReturn
    \/ RemoteStep
    \/ \E c \in CmdLines : LauncherMain(c)
    \/ \E id \in LIds : LauncherReturned(id)
    \/ \E w \in Windows : DestroyWindow(w)

SpecLauncher == InitLauncher /\ [][NextLauncher]_vars

\* the runs with every window of a 64-bit process next to the 64-bit
\* controller: the dialog thread applies a mode to a listed window while the
\* worker thread applies WDA_EXCLUDEFROMCAPTURE to the windows of a watched
\* process; every call takes the same-architecture path, and the dialog's
\* auto-unload option (g_autoUnloadDll) is off
InitRace ==
    /\ env \in {e \in Envs : /\ e.bits = 64
                             /\ e.gwda
                             /\ e.files = Deployed
                             /\ e.wins = Windows
                             /\ e.mism = {}}
    /\ Start

\* the steps of an apply of thread t on the same-architecture path
SameArchStep(t) ==
    \/ CreateSharedData(t)
    \/ SharedWriteAffinity(t)
    \/ OpenTarget(t)
    \/ EvictStale(t)
    \/ EvictWait(t)
    \/ RemoteLoadLibrary(t)
    \/ LoadWait(t)
    \/ VerifyAffinity(t)
    \/ AutoUnload(t)
    \/ AutoUnloadWait(t)
    \/ CloseProcess(t)
    \/ CloseMap(t)

NextRace ==
    \/ \E h \in env.wins, a \in Modes : UiApply(h, a, FALSE)
    \/ \E t \in Threads : SameArchStep(t) \/ Return(t)
    \/ \E id \in RIds :
          \/ LoadLibraryW(id)
          \/ LoadLibraryDangling(id)
          \/ DllMainRead(id)
          \/ DllMainSet(id)
          \/ FreeLibrary(id)
    \/ \E w \in env.wins : CtxWatch(w)
    \/ WmTimer
    \/ WorkerRecv
    \/ WorkerPid
    \/ WorkerInject

SpecRace == InitRace /\ [][NextRace]_vars

(***************************************************************************)
(* Properties.                                                             *)
(***************************************************************************)
\* thread t is inside InjectWDASetAffinity or UnloadInjectedDll
Inside(t) == loc[t].op # "none"

\* the call of thread t has reached its return statement
Returned(t, op) == pc[t] = "ret" /\ loc[t].op = op

\* the module of the controller's bit-width is next to the controller, under
\* its bit-width name or under the legacy name
AgentFilePresent == "same" \in env.files \/ "legacy" \in env.files

\* the process that owns the window has the controller's bit-width
SameBitness(h) == ProcBits(env.owner[h]) = env.bits

\* the payload as the controller's build reads it back from the section
PayloadHolds(h, a) ==
    /\ seg.handles > 0
    /\ ReadHwnd(env.bits, seg.words) = [lo |-> h, hi |-> 0]
    /\ ReadAffinity(env.bits, seg.words) = a

\* no agent module is mapped in process p
NoAgentIn(p) == \A m \in ModNames : mods[p][m] = 0

C3_AsStated ==
    \A h \in Windows :
        (/\ Returned("ui", "unload")
         /\ loc["ui"].hwnd = h
         /\ loc["ui"].hProcess = "closed")
            => /\ loc["ui"].ret
               /\ (hist.op = "unload" /\ hist.hwnd = h /\ hist.ret)
                     => NoAgentIn(env.owner[h])

\* no step has failed, removeAgent has returned true twice in a row, and the
\* agent module the launcher loaded is still mapped in the target
C3_Witness ==
    \E h \in Windows :
        /\ Returned("ui", "unload")
        /\ loc["ui"].hwnd = h
        /\ loc["ui"].ret
        /\ hist.op = "unload"
        /\ hist.hwnd = h
        /\ hist.ret
        /\ ~faulted
        /\ alive[h]
        /\ mods[env.owner[h]]["opp"] > 0

\* C4: a controller thread whose architecture check reported a mismatch
\* creates no remote thread in the target, and every remote thread is
\* created by a process of the target's bit-width (the launcher, on the
\* cross-architecture path)
C4_NoDirectThread ==
    /\ \A t \in Threads : loc[t].archMismatch => ~loc[t].direct
    /\ \A id \in RIds :
          rthreads[id].st # "none"
              => rthreads[id].cbits = ProcBits(rthreads[id].pid)

\* the controller waits for the launcher it spawned, whose load thread
\* exists in the target of the other bit-width
C4_Witness ==
    \E t \in Threads, l \in LIds, id \in RIds :
        /\ pc[t] = "a_lwait"
        /\ loc[t].archMismatch
        /\ loc[t].lid = l
        /\ launchers[l].st = "loadWait"
        /\ launchers[l].rt = id
        /\ rthreads[id].kind = "load"
        /\ rthreads[id].pid \in env.mism

C6_AsStated ==
    (/\ Returned("ui", "apply")
     /\ loc["ui"].direct
     /\ loc["ui"].exitCode = STILL_ACTIVE)
        => (~loc["ui"].ret /\ loc["ui"].hProcess = "closed")

\* the load thread had not ended when the wait was over, and apply returns
\* true
C6_Witness ==
    /\ Returned("ui", "apply")
    /\ loc["ui"].direct
    /\ loc["ui"].exitCode = STILL_ACTIVE
    /\ loc["ui"].ret
    /\ loc["ui"].hProcess = "closed"

\* C7: apply returns true only if the attribute it read back equals the
\* requested affinity, whenever it could read the attribute back; on both
\* paths and for both controller threads, whatever the other thread does
C7_TrueOnlyIfReadBackMatches ==
    \A t \in Threads :
        (Returned(t, "apply") /\ loc[t].ret /\ loc[t].queried)
            => loc[t].actual = loc[t].affinity

\* the load returned a module handle, the read-back differs from the
\* request and apply returns false, while the other thread is inside apply
C7_Witness ==
    \E t \in Threads, u \in Threads :
        /\ t # u
        /\ Returned(t, "apply")
        /\ loc[t].exitCode = HMODULE_LOADED
        /\ loc[t].queried
        /\ loc[t].actual # loc[t].affinity
        /\ ~loc[t].ret
        /\ loc[u].op = "apply"

\* C8: a call that returns holds neither the process handle nor the section
\* handle it opened; no handle is closed twice or closed without having been
\* opened; and the section has exactly the handles of the calls that hold
\* one and of the agents that are attached
C8_HandlesClosed ==
    /\ \A t \in Threads :
          pc[t] = "ret" => /\ loc[t].hProcess \in {"none", "closed"}
                           /\ loc[t].hMap \in {"none", "closed"}
    /\ \A t \in Threads :
          loc[t].hProcess # "invalid" /\ loc[t].hMap # "invalid"
    /\ seg.handles = Cardinality({t \in Threads : loc[t].hMap = "open"})
                   + Cardinality({id \in RIds : rthreads[id].st = "attached"})

\* a late failure: the load thread was created and LoadLibraryW returned
\* NULL; both handles were opened and are closed
C8_Witness ==
    \E t \in Threads :
        /\ Returned(t, "apply")
        /\ loc[t].direct
        /\ loc[t].exitCode = 0
        /\ ~loc[t].ret
        /\ loc[t].hProcess = "closed"
        /\ loc[t].hMap = "closed"

\* thread t triggers remote execution in this step: it creates a remote
\* thread in the target or spawns the launcher
Triggers(t) ==
    /\ pc[t] \in {"a_evict", "a_load", "a_unload", "a_cross"}
    /\ pc'[t] \in {"a_evictWait", "a_loadWait", "a_unloadWait", "a_lwait"}

\* C9, as stated: whenever a call of apply triggers remote execution, the
\* payload in the section is the window handle and the affinity of that call
C9_AsStated ==
    [][\A t \in Threads :
          (loc[t].op = "apply" /\ Triggers(t))
              => PayloadHolds(loc[t].hwnd, loc[t].affinity)]_vars

\* a call waits for the load thread it created, the thread has not run yet,
\* and the section holds the payload of the other thread's call
C9_Witness ==
    \E t \in Threads, u \in Threads :
        /\ t # u
        /\ loc[t].op = "apply"
        /\ pc[t] = "a_loadWait"
        /\ rthreads[loc[t].rt].st = "new"
        /\ loc[u].op = "apply"
        /\ PayloadHolds(loc[u].hwnd, loc[u].affinity)
        /\ ~PayloadHolds(loc[t].hwnd, loc[t].affinity)

\* C10, as stated: at most one controller thread is inside
\* InjectWDASetAffinity or UnloadInjectedDll
C10_AsStated == Cardinality({t \in Threads : Inside(t)}) <= 1

\* the dialog thread and the worker thread are both inside
\* InjectWDASetAffinity, between the payload write and the agent's read
C10_Witness ==
    /\ loc["ui"].op = "apply"
    /\ loc["worker"].op = "apply"
    /\ pc["ui"] = "a_loadWait"
    /\ pc["worker"] = "a_open"

\* C11, as stated: the dialog thread is never inside InjectWDASetAffinity or
\* UnloadInjectedDll; only the worker thread executes them
C11_AsStated == ~Inside("ui")

\* the dialog thread is in the wait of 8 s for a load thread that has not
\* run yet, while the worker thread is outside the injector
C11_Witness ==
    /\ loc["ui"].op = "apply"
    /\ pc["ui"] = "a_loadWait"
    /\ rthreads[loc["ui"].rt].st = "new"
    /\ ~Inside("worker")

\* the failure class of an apply that has returned false, from the step at
\* which it failed
FailureClass(t) ==
    LET l == loc[t]
    IN  IF l.hMap = "none"
        THEN IF l.hwnd # NULL /\ alive[l.hwnd] /\ ~AgentFilePresent
             THEN "EnvironmentError"
             ELSE "other"
        ELSE IF l.hProcess = "none"
        THEN IF l.pid # 0 THEN "PrivilegeError" ELSE "other"
        ELSE IF l.archMismatch
        THEN IF ~l.launched /\ ~({"opp", "launcher"} \subseteq env.files)
             THEN "ArchitectureMismatchError"
             ELSE IF l.queried /\ l.actual # l.affinity
             THEN "VerificationMismatch"
             ELSE "other"
        ELSE IF l.exitCode = 0
        THEN "RemoteLoadFailure"
        ELSE IF l.queried /\ l.actual # l.affinity
        THEN "VerificationMismatch"
        ELSE "other"

FailureClasses ==
    {"EnvironmentError", "PrivilegeError", "ArchitectureMismatchError",
     "RemoteLoadFailure", "VerificationMismatch"}

\* C12, as stated: an apply that fails in one of the five classes leaves a
\* last-error value that the call has set, and only EnvironmentError leaves
\* ERROR_FILE_NOT_FOUND (the value of the missing same-bitness module)
C12_AsStated ==
    (/\ Returned("ui", "apply")
     /\ ~loc["ui"].ret
     /\ FailureClass("ui") \in FailureClasses)
        => /\ loc["ui"].lastErr # NOT_SET
           /\ FailureClass("ui") # "EnvironmentError"
                 => loc["ui"].lastErr # ERROR_FILE_NOT_FOUND

\* the module was loaded, the read-back differs from the request, apply
\* returns false and no step of the call has set the last-error value
C12_Witness ==
    /\ Returned("ui", "apply")
    /\ ~loc["ui"].ret
    /\ FailureClass("ui") = "VerificationMismatch"
    /\ loc["ui"].exitCode = HMODULE_LOADED
    /\ loc["ui"].lastErr = NOT_SET

\* C13, as stated: when apply with autoUnload = true returns true, no agent
\* module is mapped in the process that owns the window, whatever its
\* bit-width
C13_AsStated ==
    \A h \in Windows :
        (/\ Returned("ui", "apply")
         /\ loc["ui"].hwnd = h
         /\ loc["ui"].autoUnload
         /\ loc["ui"].ret)
            => NoAgentIn(env.owner[h])

\* no step has failed, apply with autoUnload = true has returned true on a
\* window of a process of the other bit-width, and the module the launcher
\* loaded is still mapped
C13_Witness ==
    \E h \in Windows :
        /\ Returned("ui", "apply")
        /\ loc["ui"].hwnd = h
        /\ loc["ui"].autoUnload
        /\ loc["ui"].ret
        /\ loc["ui"].archMismatch
        /\ ~faulted
        /\ alive[h]
        /\ mods[env.owner[h]]["opp"] > 0

\* the agent module of the controller's bit-width, the module of the other
\* bit-width and the launcher are next to the controller
AgentFilesPresent ==
    /\ AgentFilePresent
    /\ {"opp", "launcher"} \subseteq env.files

\* C14, as stated: with the agent files present, when removeAgent(h) returns
\* and the call before it was apply(h, WDA_EXCLUDEFROMCAPTURE, autoUnload),
\* the first call since the start (no agent was mapped when it began), and
\* returned true, removeAgent returns true and no agent module under any of
\* the three names is mapped in the owner of the window
C14_AsStated ==
    \A h \in Windows :
        (/\ Returned("ui", "unload")
         /\ loc["ui"].hwnd = h
         /\ alive[h]
         /\ AgentFilesPresent
         /\ hist.op = "apply"
         /\ hist.hwnd = h
         /\ hist.affinity = WDA_EXCLUDEFROMCAPTURE
         /\ hist.first
         /\ hist.ret)
            => (loc["ui"].ret /\ NoAgentIn(env.owner[h]))

\* no step has failed, removeAgent returns true after such an apply, and the
\* module the launcher loaded is still mapped in the target
C14_Witness ==
    \E h \in Windows :
        /\ Returned("ui", "unload")
        /\ loc["ui"].hwnd = h
        /\ loc["ui"].ret
        /\ alive[h]
        /\ AgentFilesPresent
        /\ hist.op = "apply"
        /\ hist.hwnd = h
        /\ hist.affinity = WDA_EXCLUDEFROMCAPTURE
        /\ hist.first
        /\ hist.ret
        /\ ~faulted
        /\ mods[env.owner[h]]["opp"] > 0

\* a remote thread on LoadLibraryW that has not ended
LoadRunning(id) ==
    /\ rthreads[id].kind = "load"
    /\ rthreads[id].st \in {"new", "attached", "read"}

\* a launcher process that has not exited
LauncherRunning(id) == launchers[id].st \notin {"none", "exited"}

\* C15, as stated: when the first call of the dialog thread, an apply, has
\* closed its handle of the section and returns, no load thread and no
\* launcher is still running (each of them was started by this call)
C15_AsStated ==
    (/\ Returned("ui", "apply")
     /\ hist.op = "none"
     /\ loc["ui"].hMap = "closed")
        => /\ \A id \in RIds : ~LoadRunning(id)
           /\ \A id \in LIds : ~LauncherRunning(id)

\* the wait of 8 s was over before the load thread ran: apply has closed its
\* handle, the section is gone, and the thread has yet to attach the agent
C15_Witness ==
    \E id \in RIds :
        /\ Returned("ui", "apply")
        /\ hist.op = "none"
        /\ loc["ui"].hMap = "closed"
        /\ loc["ui"].exitCode = STILL_ACTIVE
        /\ ~loc["ui"].archMismatch
        /\ LoadRunning(id)
        /\ rthreads[id].st = "new"
        /\ seg.handles = 0

\* C16: on the same-architecture path a zero result of the load thread ends
\* the call with false: with a zero result the call is never at the
\* verification or at the auto-unload, has read nothing back and has not
\* succeeded; the verification is reached with a non-zero result only
C16_ZeroResultFails ==
    \A t \in Threads :
        (loc[t].op = "apply" /\ ~loc[t].archMismatch /\ loc[t].exitCode = 0)
            => /\ pc[t] \notin {"a_verify", "a_unload", "a_unloadWait"}
               /\ ~loc[t].queried
               /\ ~loc[t].success
               /\ pc[t] = "ret" => ~loc[t].ret

\* the load thread ran and LoadLibraryW returned NULL: apply returns false
\* with no read-back
C16_Witness ==
    \E t \in Threads :
        /\ Returned(t, "apply")
        /\ ~loc[t].archMismatch
        /\ loc[t].hProcess = "closed"
        /\ loc[t].exitCode = 0
        /\ loc[t].lastErr = NOT_SET
        /\ ~loc[t].queried
        /\ ~loc[t].ret

\* C17, as stated: apply returns true without a matching read-back only
\* where GetWindowDisplayAffinity is not available
C17_AsStated ==
    \A t \in Threads :
        (Returned(t, "apply") /\ loc[t].ret)
            => \/ loc[t].queried /\ loc[t].actual = loc[t].affinity
               \/ ~env.gwda

\* GetWindowDisplayAffinity is available and failed on the window, which was
\* destroyed during the call: apply returns true without a read-back
C17_Witness ==
    \E t \in Threads :
        /\ Returned(t, "apply")
        /\ loc[t].ret
        /\ ~loc[t].queried
        /\ env.gwda
        /\ ~loc[t].archMismatch
        /\ loc[t].exitCode = HMODULE_LOADED
        /\ ~alive[loc[t].hwnd]

\* C18: on an architecture mismatch with the opposite-bitness module or the
\* opposite-bitness launcher missing, apply returns false with
\* ERROR_FILE_NOT_FOUND, has spawned no launcher and created no remote
\* thread, and has closed the process handle and the section handle
C18_OppositeFilesMissing ==
    (/\ Returned("ui", "apply")
     /\ loc["ui"].archMismatch
     /\ ~({"opp", "launcher"} \subseteq env.files))
        => /\ ~loc["ui"].ret
           /\ loc["ui"].lastErr = ERROR_FILE_NOT_FOUND
           /\ ~loc["ui"].launched
           /\ ~loc["ui"].direct
           /\ \A id \in LIds : launchers[id].st = "none"
           /\ loc["ui"].hProcess = "closed"
           /\ loc["ui"].hMap = "closed"

\* the launcher executable is missing
C18_Witness ==
    /\ Returned("ui", "apply")
    /\ loc["ui"].archMismatch
    /\ "opp" \in env.files
    /\ "launcher" \notin env.files
    /\ ~loc["ui"].ret
    /\ loc["ui"].hProcess = "closed"
    /\ loc["ui"].hMap = "closed"

\* thread t creates the load thread of the same-architecture path in this
\* step
TriggersLoad(t) == pc[t] = "a_load" /\ pc'[t] = "a_loadWait"

\* C19, as stated: whenever an apply creates its load thread, no agent
\* module (current name or legacy name) is mapped in the target
C19_AsStated ==
    [][\A t \in Threads :
          TriggersLoad(t)
              => /\ mods[loc[t].pid]["same"] = 0
                 /\ mods[loc[t].pid]["legacy"] = 0]_vars

\* no step has failed, a call waits for the load thread it created, the
\* thread has not run yet and the module is mapped already: LoadLibraryW
\* will not run the agent's load notification
C19_Witness ==
    \E t \in Threads :
        /\ loc[t].op = "apply"
        /\ pc[t] = "a_loadWait"
        /\ rthreads[loc[t].rt].st = "new"
        /\ mods[loc[t].pid][loc[t].sameDllPath] > 0
        /\ ~faulted

\* C20, as stated: a call that waits for its auto-unload thread has
\* autoUnload set and has succeeded
C20_AsStated ==
    \A t \in Threads :
        pc[t] = "a_unloadWait" => (loc[t].autoUnload /\ loc[t].success)

\* the read-back differs from the request, apply is about to return false,
\* and the call has created the thread that unloads the agent
C20_Witness ==
    \E t \in Threads :
        /\ pc[t] = "a_unloadWait"
        /\ loc[t].queried
        /\ loc[t].actual # loc[t].affinity
        /\ ~loc[t].success
        /\ rthreads[loc[t].rt].kind = "free"

\* C21: the result of an apply that went through the verification of the
\* same-architecture path is the outcome of the verification alone, whatever
\* became of the auto-unload (no module found, no thread created, a thread
\* that ended, a thread that had not ended after 5 s)
C21_UnloadLeavesResult ==
    \A t \in Threads :
        (Returned(t, "apply") /\ ~loc[t].archMismatch /\ loc[t].exitCode # 0)
            => loc[t].ret = (IF loc[t].queried
                             THEN loc[t].actual = loc[t].affinity
                             ELSE TRUE)

\* the read-back matched, the unload thread had not ended when the wait of
\* 5 s was over (it has not run yet), and apply returns true
C21_Witness ==
    \E t \in Threads, id \in RIds :
        /\ Returned(t, "apply")
        /\ loc[t].autoUnload
        /\ loc[t].queried
        /\ loc[t].actual = loc[t].affinity
        /\ loc[t].ret
        /\ rthreads[id].kind = "free"
        /\ rthreads[id].st = "new"
        /\ ~rthreads[id].owned

\* remote thread id runs in this step: its entry point is called
Runs(id) ==
    /\ rthreads[id].st = "new"
    /\ rthreads'[id].st # "new"

\* remote thread id, on LoadLibraryW, ends in this step with the module
\* mapped by it, and its creator can read its exit code
AgentLoaded(id) ==
    /\ rthreads[id].kind = "load"
    /\ rthreads[id].st \in {"new", "read"}
    /\ rthreads'[id].st = "done"
    /\ mods[rthreads[id].pid][rthreads[id].mod] = 0 \/ rthreads[id].st = "read"
    /\ mods'[rthreads[id].pid][rthreads[id].mod] > 0

\* C22: an agent that is loaded reports the load as successful on every
\* path (the exit code of the load thread is not zero), and an agent that
\* finds no section or cannot map it changes no window attribute
C22_LoadReportedWithoutSection ==
    [][\A id \in RIds :
          /\ AgentLoaded(id) => rthreads'[id].exit # 0
          /\ (AgentLoaded(id) /\ rthreads[id].st = "new")
                => affinity' = affinity]_vars

\* the load thread a call created ran after the call had closed the section:
\* the agent is mapped, no attribute was set, and the thread's creator (the
\* launcher, which still waits) reads a non-zero exit code
C22_Witness ==
    \E id \in RIds, l \in LIds :
        /\ launchers[l].st = "loadWait"
        /\ launchers[l].rt = id
        /\ rthreads[id].st = "done"
        /\ rthreads[id].exit = HMODULE_LOADED
        /\ rthreads[id].hwnd = NoHwnd
        /\ mods[rthreads[id].pid][rthreads[id].mod] = 1
        /\ seg.handles = 0

\* controller thread t is in CreateSharedData in this step
WritesPayload(t) ==
    /\ pc[t] \in {"a_write", "a_write2"}
    /\ pc'[t] # pc[t]

\* C23: the words of the section change only in the write step of an
\* injector call, or go with the last handle of the section; no step of the
\* agent changes them
C23_AgentOnlyReads ==
    [][seg'.words # seg.words
          => \/ \E t \in Threads : WritesPayload(t)
             \/ seg'.handles = 0]_vars

\* the agent a call triggered has read the payload, and the section still
\* holds the payload of that call
C23_Witness ==
    \E t \in Threads :
        /\ loc[t].op = "apply"
        /\ pc[t] = "a_loadWait"
        /\ rthreads[loc[t].rt].st = "read"
        /\ rthreads[loc[t].rt].hwnd.lo = loc[t].hwnd
        /\ rthreads[loc[t].rt].aff = loc[t].affinity
        /\ PayloadHolds(loc[t].hwnd, loc[t].affinity)

\* C24: a window attribute changes only in the step of an agent that has
\* read the payload, whose handle is non-null and denotes a live window:
\* the window that changes is the one of the handle read and its new
\* attribute is the mode read
C24_ValidatedThenSet ==
    [][\A w \in Windows :
          affinity'[w] # affinity[w]
              => \E id \in RIds :
                    /\ rthreads[id].st = "read"
                    /\ rthreads'[id].st # "read"
                    /\ rthreads[id].hwnd = [lo |-> w, hi |-> 0]
                    /\ alive[w]
                    /\ affinity'[w] = rthreads[id].aff]_vars

\* the agent read a handle whose window had been destroyed: it has ended
\* and the attribute of the window is as before
C24_Witness ==
    \E id \in RIds, t \in Threads :
        /\ pc[t] = "a_loadWait"
        /\ loc[t].rt = id
        /\ loc[t].affinity = WDA_EXCLUDEFROMCAPTURE
        /\ rthreads[id].st = "done"
        /\ rthreads[id].exit = HMODULE_LOADED
        /\ rthreads[id].hwnd.lo = loc[t].hwnd
        /\ rthreads[id].aff = WDA_EXCLUDEFROMCAPTURE
        /\ ~alive[loc[t].hwnd]
        /\ affinity[loc[t].hwnd] = WDA_NONE

\* C25: the agent acts in the load that maps the module only: a remote
\* thread on FreeLibrary (thread attach, thread detach and, with the last
\* reference, process detach reach the agent) and a LoadLibraryW of a module
\* that is mapped already change no window attribute and do not touch the
\* section; and when a load thread has ended no agent step is left to run
C25_OnlyOnAttach ==
    [][\A id \in RIds :
          (/\ Runs(id)
           /\ \/ rthreads[id].kind = "free"
              \/ mods[rthreads[id].pid][rthreads[id].mod] > 0)
              => (affinity' = affinity /\ seg' = seg)]_vars

\* the agent set the attribute when it was loaded, and the thread that
\* unloaded it has ended: the module is gone and the attribute is as the
\* agent set it
C25_Witness ==
    \E id \in RIds, t \in Threads :
        /\ pc[t] = "a_unloadWait"
        /\ loc[t].rt = id
        /\ rthreads[id].kind = "free"
        /\ rthreads[id].st = "done"
        /\ mods[rthreads[id].pid][rthreads[id].mod] = 0
        /\ loc[t].queried
        /\ affinity[loc[t].hwnd] = WDA_EXCLUDEFROMCAPTURE

\* C29: on the cross-architecture path, once the wait for the launcher is
\* over, the call is at the verification only with exit code 0; with any
\* other exit code, STILL_ACTIVE of a launcher that has not exited included,
\* it has read nothing back and returns false
C29_ExitCodeMapped ==
    \A t \in Threads :
        (loc[t].op = "apply" /\ loc[t].launched /\ loc[t].lid = 0)
            => /\ pc[t] = "a_xverify" => loc[t].exitCode = 0
               /\ loc[t].exitCode # 0
                     => /\ pc[t] \in {"a_closeProc", "a_closeMap", "ret"}
                        /\ ~loc[t].queried
                        /\ ~loc[t].success
                        /\ pc[t] = "ret" => ~loc[t].ret

\* the launcher had not exited when the wait of 12 s was over: apply
\* returns false
C29_Witness ==
    \E t \in Threads :
        /\ Returned(t, "apply")
        /\ loc[t].launched
        /\ loc[t].exitCode = STILL_ACTIVE
        /\ ~loc[t].queried
        /\ ~loc[t].ret
        /\ \E l \in LIds : launchers[l].st \notin {"none", "exited"}

\* the load thread of launcher l had ended with a non-zero result when the
\* launcher's wait of 10 s was over
LoadCompleted(l) ==
    /\ l.hProcess # "none"
    /\ l.exitCode \notin {0, STILL_ACTIVE}

\* C26: a launcher in inject mode exits with 0 exactly when the remote load
\* completed with a non-zero result, and with 1 otherwise, a load thread
\* that has not ended at the end of the launcher's wait included
C26_AsStated ==
    \A id \in LIds :
        (Exited(id) /\ ~launchers[id].unloadOnly)
            => /\ launchers[id].exit \in {0, 1}
               /\ launchers[id].exit = 0 <=> LoadCompleted(launchers[id])

\* the load thread had not ended after 10 s (it has not run yet), the
\* launcher read STILL_ACTIVE as its exit code and exited with 0
C26_Witness ==
    \E id \in LIds, r \in RIds :
        /\ Exited(id)
        /\ ~launchers[id].unloadOnly
        /\ launchers[id].exitCode = STILL_ACTIVE
        /\ launchers[id].exit = 0
        /\ rthreads[r].kind = "load"
        /\ rthreads[r].st = "new"
        /\ ~rthreads[r].owned
        /\ mods[launchers[id].pid][launchers[id].mod] = 0

\* launcher id creates its load thread in this step
CreatesLoadThread(id) ==
    /\ launchers[id].st = "load"
    /\ launchers'[id].st = "loadWait"

\* no copy of the module launcher id is to load is mapped in its target
NoCopyLoaded(id) == mods[launchers[id].pid][launchers[id].mod] = 0

C27_AsStated ==
    \A id \in LIds :
        (Exited(id) /\ launchers[id].unloadArg) => launchers[id].exit = 0

\* C27: a launcher started with the trailing "unload" never reaches the
\* allocation of the path buffer or the creation of the load thread, and it
\* exits with 0 when it has opened the target process, whatever the
\* eviction found or did, and with 1 when it has not (pid argument 0,
\* OpenProcess failed)
C27_UnloadOnlyEvicts ==
    \A id \in LIds :
        launchers[id].unloadArg
            => /\ launchers[id].st \notin {"load", "loadWait"}
               /\ launchers[id].exitCode = 0
               /\ Exited(id)
                     => launchers[id].exit =
                            (IF launchers[id].hProcess = "closed" THEN 0 ELSE 1)

\* an apply on the cross-architecture path returned true and left the agent
\* mapped; a launcher started with "<pid> <dll> unload" has unloaded it and
\* exited with 0
C27_Witness ==
    \E id \in LIds :
        /\ Exited(id)
        /\ launchers[id].unloadOnly
        /\ launchers[id].exit = 0
        /\ mods[launchers[id].pid][launchers[id].mod] = 0
        /\ ~faulted
        /\ pc["ui"] = "idle"
        /\ hist.op = "apply"
        /\ hist.ret
        /\ env.owner[hist.hwnd] = launchers[id].pid
        /\ IsArchMismatch(launchers[id].pid)

\* the agent that the load thread of call t mapped sets the attribute in
\* this step, having read from the section a handle that is not the one of
\* call t
StrayAgent(t, id) ==
    /\ loc[t].op = "apply"
    /\ pc[t] = "a_loadWait"
    /\ loc[t].rt = id
    /\ rthreads[id].st = "read"
    /\ rthreads'[id].st # "read"
    /\ rthreads[id].hwnd.lo # loc[t].hwnd

\* C30: when the agent triggered by one apply reads the section after an
\* overlapping apply for another window has written it, the handle it has
\* read is the one of that other window; its step leaves the window of its
\* own call unchanged, and the other window is the only one it can change,
\* to the mode it read
C30_SecondPayloadApplied ==
    [][\A t \in Threads, id \in RIds :
          StrayAgent(t, id)
              => /\ rthreads[id].hwnd.hi = 0
                 /\ rthreads[id].hwnd.lo \in env.wins \ {loc[t].hwnd}
                 /\ affinity'[loc[t].hwnd] = affinity[loc[t].hwnd]
                 /\ \A w \in Windows :
                       affinity'[w] # affinity[w]
                           => /\ w = rthreads[id].hwnd.lo
                              /\ affinity'[w] = rthreads[id].aff]_vars

\* the dialog thread's apply of WDA_NONE to a hidden window waits for its
\* load thread; the worker's apply for the other window wrote the section
\* before the agent read it, so the agent has read and set the worker's
\* window and mode, and the dialog's window is hidden as before
C30_Witness ==
    \E id \in RIds :
        /\ loc["ui"].op = "apply"
        /\ pc["ui"] = "a_loadWait"
        /\ loc["ui"].rt = id
        /\ loc["ui"].affinity = WDA_NONE
        /\ loc["worker"].op = "apply"
        /\ loc["worker"].hwnd # loc["ui"].hwnd
        /\ pc["worker"] \in {"a_open", "a_evict", "a_load"}
        /\ rthreads[id].st = "done"
        /\ rthreads[id].hwnd.lo = loc["worker"].hwnd
        /\ rthreads[id].aff = WDA_EXCLUDEFROMCAPTURE
        /\ affinity[loc["worker"].hwnd] = WDA_EXCLUDEFROMCAPTURE
        /\ affinity[loc["ui"].hwnd] = WDA_EXCLUDEFROMCAPTURE
        /\ alive[loc["ui"].hwnd]
        /\ ~faulted

\* the apply of thread t has not got a handle of the target process: the
\* window handle was null or no window, the process id could not be
\* resolved, or OpenProcess was denied
Unreached(t) ==
    /\ loc[t].op = "apply"
    /\ loc[t].hProcess = "none"

\* C33: an apply that has not opened the target process has created no
\* remote thread (and with it no remote buffer), has spawned no launcher,
\* and returns false
C33_UnreachedFailsEarly ==
    \A t \in Threads :
        Unreached(t)
            => /\ ~loc[t].direct
               /\ ~loc[t].launched
               /\ loc[t].rt = 0
               /\ loc[t].lid = 0
               /\ ~loc[t].success
               /\ pc[t] = "ret" => ~loc[t].ret

\* OpenProcess was denied for the process of a live window: apply returns
\* false, having closed the section, with no remote thread of its own
C33_Witness ==
    \E t \in Threads :
        /\ Returned(t, "apply")
        /\ loc[t].pid # 0
        /\ loc[t].hProcess = "none"
        /\ loc[t].hMap = "closed"
        /\ loc[t].lastErr = ERROR_ACCESS_DENIED
        /\ ~loc[t].ret
        /\ ~loc[t].direct
        /\ \A id \in RIds : rthreads[id].st = "none"

\* C34: the path buffer of a load thread is not released while the thread
\* may still be running, the case of a wait that timed out included
C34_AsStated ==
    \A id \in RIds :
        (rthreads[id].kind = "load" /\ rthreads[id].st \notin {"none", "done"})
            => rthreads[id].buf = "valid"

\* the wait of 8 s was over before the load thread had run: the apply has
\* released the buffer and gone on, and the thread is still to call
\* LoadLibraryW on the released buffer
C34_Witness ==
    \E id \in RIds, t \in Threads :
        /\ rthreads[id].kind = "load"
        /\ rthreads[id].st = "new"
        /\ rthreads[id].buf = "freed"
        /\ rthreads[id].cbits = env.bits
        /\ loc[t].op = "apply"
        /\ loc[t].direct
        /\ loc[t].exitCode = STILL_ACTIVE
        /\ pc[t] \in {"a_verify", "a_unload", "a_closeProc"}

\* C35: a call of the controller, removeAgent as well as apply, has created
\* a remote thread itself only in a process of the controller's bit-width
C35_NoCrossWidthThread ==
    \A t \in Threads :
        loc[t].direct => ProcBits(loc[t].pid) = env.bits

\* removeAgent on a window of a process of the other bit-width, in which
\* the agent is mapped, has returned without creating a remote thread
C35_Witness ==
    \E t \in Threads :
        /\ Returned(t, "unload")
        /\ loc[t].ret
        /\ loc[t].pid # 0
        /\ ProcBits(loc[t].pid) # env.bits
        /\ mods[loc[t].pid]["opp"] > 0
        /\ ~loc[t].direct

(***************************************************************************)
(* The dispatch between the dialog and the injector worker: the dialog     *)
(* only sends requests and handles posted messages, the worker serves the  *)
(* requests, and a WatchCheck applies to a target of the controller's      *)
(* bit-width.                                                              *)
(***************************************************************************)
\* the 64-bit controller in its usual deployment, one window of a 64-bit
\* process, and the first Update of WM_INITDIALOG (main.cpp:1145) in the
\* queue
InitDispatch ==
    /\ env \in {e \in Envs : /\ e.bits = 64
                             /\ e.gwda
                             /\ e.files = Deployed
                             /\ e.wins = OneWindow
                             /\ e.mism = {}}
    /\ Created
    /\ chan = <<"Update">>

\* the steps of the dialog thread
DialogStep ==
    \/ DlgActivate
    \/ DlgWindowsReady
    \/ DlgWatchApplied
    \/ DlgDestroy
    \/ DlgQuit
    \/ DlgJoin
    \/ \E w \in env.wins : CtxWatch(w)
    \/ WmTimer

\* the steps of a call of the injector by the worker. A process is
\* processed once, so no call finds a module left by an earlier one and
\* waits for its eviction
WorkerCall ==
    \/ CreateSharedData("worker")
    \/ SharedWriteAffinity("worker")
    \/ OpenTarget("worker")
    \/ EvictStale("worker")
    \/ RemoteLoadLibrary("worker")
    \/ LoadWait("worker")
    \/ VerifyAffinity("worker")
    \/ AutoUnload("worker")
    \/ AutoUnloadWait("worker")
    \/ CloseProcess("worker")
    \/ CloseMap("worker")
    \/ Return("worker")

\* the steps of the worker thread
WorkerStep ==
    \/ WorkerRecv
    \/ WorkerEnumerate
    \/ WorkerPostReady
    \/ WorkerPid
    \/ WorkerInject
    \/ WorkerCall

\* the steps of the remote threads in the target
AgentStep ==
    \E id \in RIds :
       \/ LoadLibraryW(id)
       \/ LoadLibraryDangling(id)
       \/ DllMainRead(id)
       \/ DllMainSet(id)
       \/ FreeLibrary(id)

NextDispatch ==
    \/ DialogStep
    \/ WorkerStep
    \/ AgentStep
    \/ \E w \in Windows : DestroyWindow(w)

SpecDispatch == InitDispatch /\ [][NextDispatch]_vars

(***************************************************************************)
(* C31: the queue of injector events.                                      *)
(***************************************************************************)
\* the events of the queue
InjectorEventType == {"Update", "WatchCheck", "Quit"}

\* the worker is between two requests
WorkerWaiting == pc["worker"] = "w_recv"

\* what the worker does next when it has taken event e
Serves(e) ==
    CASE e = "Quit" -> {"w_exit"}
      [] e = "Update" -> {"w_enum"}
      [] OTHER -> {"w_pid", "w_recv"}

\* C31: the queue is first-in first-out with one consumer and no
\* cancellation. Every step leaves the queue alone, appends one event at
\* its end, or removes its oldest event; an event is removed only by the
\* worker between two requests, which then serves that very event; and the
\* worker leaves its loop only by taking a Quit that has reached the head of
\* the queue
C31_FifoOneConsumer ==
    [][ /\ \/ chan' = chan
           \/ \E e \in InjectorEventType : chan' = Append(chan, e)
           \/ /\ chan # <<>>
              /\ chan' = Tail(chan)
              /\ WorkerWaiting
              /\ pc'["worker"] \in Serves(Head(chan))
        /\ (pc'["worker"] = "w_exit" /\ pc["worker"] # "w_exit")
              => /\ chan # <<>>
                 /\ Head(chan) = "Quit"
                 /\ chan' = Tail(chan)
        /\ ~WorkerWaiting => Len(chan') >= Len(chan) ]_vars

\* the worker is serving a WatchCheck while the Quit sent after it waits in
\* the queue and the dialog waits in join
C31_Witness ==
    /\ pc["worker"] = "w_inject"
    /\ wk.hwnds = <<>>
    /\ chan = <<"Quit">>
    /\ pc["ui"] = "d_join"

(***************************************************************************)
(* C32: the completion messages.                                           *)
(***************************************************************************)
\* this step is the end of an Update or of a WatchCheck: the worker goes
\* back to recv after the post of line 227 or of line 310, or from the
\* continue of line 236 or 256
FinishesRequest ==
    /\ pc'["worker"] = "w_recv"
    /\ \/ pc["worker"] = "w_post"
       \/ pc["worker"] = "w_pid"
       \/ /\ pc["worker"] = "w_recv"
          /\ chan # <<>>
          /\ chan' = Tail(chan)

\* C32, as stated: every Update and every WatchCheck the worker finishes
\* while the dialog exists posts a message to the dialog, a WatchCheck that
\* applied to no process included
C32_AsStated ==
    [][ (FinishesRequest /\ dsp.hDlg)
            => Len(dsp'.msgs) = Len(dsp.msgs) + 1 ]_vars

\* the worker is at the end of a WatchCheck that processed no process (the
\* watched process has been processed by an earlier one), the dialog exists
\* and no message is posted for it
C32_Witness ==
    /\ pc["worker"] = "w_pid"
    /\ wk.pids = <<>>
    /\ wk.applied = 0
    /\ wk.names # {}
    /\ watch.pids # {}
    /\ dsp.hDlg
    /\ pc["ui"] = "idle"
    /\ dsp.msgs = <<>>

(***************************************************************************)
(* C36: the window list the dialog installs.                               *)
(***************************************************************************)
\* C36, as stated: the list the dialog has installed is never the pending
\* list an earlier WM_APP_WINDOWS_READY has emptied; it is the result of an
\* enumeration by the worker
C36_AsStated == dsp.windows.src # "moved"

\* two Updates were served before the dialog handled the first message: the
\* first handler took the second enumeration, the second one installed the
\* emptied list. The dialog shows no window although one exists, and no
\* request or message is left that would repair it
C36_Witness ==
    /\ dsp.windows = [list |-> {}, src |-> "moved"]
    /\ \E w \in env.wins : alive[w]
    /\ dsp.hDlg
    /\ pc["ui"] = "idle"
    /\ pc["worker"] = "w_recv"
    /\ chan = <<>>
    /\ dsp.msgs = <<>>

SpecShutdown ==
    /\ SpecDispatch
    /\ WF_vars(WorkerStep)
    /\ WF_vars(DlgQuit)
    /\ WF_vars(DlgJoin)

\* InjectorWorkerProc has returned
WorkerExited == pc["worker"] = "w_exit"

\* C38: once the destroy handler has sent Quit, the worker thread ends and
\* join returns; and once the worker has taken Quit it stays ended: the
\* queue, the posted messages, the pending list, the processed set and the
\* worker's own state no longer change
C38_ShutdownTerminates ==
    /\ (pc["ui"] = "d_join") ~> (pc["ui"] = "d_done" /\ WorkerExited)
    /\ [][ WorkerExited => /\ pc'["worker"] = "w_exit"
                           /\ chan' = chan
                           /\ dsp'.msgs = dsp.msgs
                           /\ dsp'.pending = dsp.pending
                           /\ wk' = wk
                           /\ watch' = watch
                           /\ loc'["worker"] = loc["worker"] ]_vars

\* join has returned after the worker had served a WatchCheck that processed
\* a process and had then taken Quit; the request sent after the destroy
\* began did not keep it
C38_Witness ==
    /\ pc["ui"] = "d_done"
    /\ WorkerExited
    /\ chan = <<>>
    /\ ~dsp.hDlg
    /\ watch.pids # {}
    /\ dsp.pending.src = "enum"

====
